---- MODULE Spec2Model ----
(***************************************************************************)
(* Model of the WhatsApp <-> Discord bridge (wd_mta): the binding store    *)
(* held by WhatsAppCog (_config), its persisted configuration file, the    *)
(* admin commands of the /binding group, and the WhatsApp -> Discord       *)
(* forwarding pipeline with its per-message delivery cache.                *)
(*                                                                         *)
(* Python dicts are insertion ordered, so every dict is a sequence of      *)
(* entries.  A coroutine is split at the awaits whose outcome or           *)
(* interleaving matters; everything between two awaits is one step.        *)
(***************************************************************************)
EXTENDS Integers, Sequences, FiniteSets, TLC

VARIABLES
    config,     \* WhatsAppCog._config : ActiveConfiguration
    file,       \* content of config_path on disk
    channels,   \* Discord side: what bot.get_channel(id) finds for each id
    cache,      \* WhatsAppCog._whatsapp_to_discord_messages
    fwd,        \* the in-flight _process_whatsapp_message task
    adm,        \* the in-flight /binding command task
    nops,       \* number of commands, messages and restarts so far
    web,        \* the in-flight WhatsAppClient._handle_webhook task
    dump,       \* lines written to WhatsAppClient._dump_io
    bot,        \* WDMTABot: admin_ids, the Discord connection, close()
    wa,         \* WhatsAppClient: session, webhook server, _dump_io
    dir         \* WhatsAppClient._group_cache and the tasks that refresh it

vars == <<config, file, channels, cache, fwd, adm, nops, web, dump, bot, wa, dir>>

----------------------------------------------------------------------------
\* Bounds of the model.

\* The number of events (commands, messages, restarts, deleted channels)
\* of a run.
MaxOps == 2

\* The WhatsApp chats, Discord channels, WhatsApp message ids and Discord
\* guilds of the model.
ChatIds == {1, 2}
ChannelIds == {1, 2, 3}
MsgIds == {1, 2, 3}
Guilds == {1, 2}

\* The ids of the channels that exist when the model starts; the others are
\* the ones guild.create_text_channel hands out.
FirstChannels == {1, 2}

\* The guild a channel id belongs to.
GuildOf(ch) == IF ch % 2 = 1 THEN 1 ELSE 2

----------------------------------------------------------------------------
\* Python values.

\* `T | None` is a sequence of length 0 (None) or 1.
None == <<>>
Some(x) == <<x>>

DigitStr == <<"0", "1", "2", "3", "4", "5", "6", "7", "8", "9">>

\* str(channel.id)
RECURSIVE StrOf(_)
StrOf(n) ==
    IF n < 10 THEN DigitStr[n + 1]
    ELSE StrOf(n \div 10) \o DigitStr[(n % 10) + 1]

\* int(channel_id)
IntOf(s) == CHOOSE n \in 0..99 : StrOf(n) = s

Range(s) == {s[i] : i \in 1..Len(s)}

\* A JSON object, and a dict read from one, is the sequence of its entries.
Entry(key, value) == [key |-> key, value |-> value]

\* obj.get(key, default)
Get(obj, key, default) ==
    IF \E i \in 1..Len(obj) : obj[i].key = key
    THEN obj[CHOOSE i \in 1..Len(obj) : obj[i].key = key].value
    ELSE default

\* [Op(x) for x in s]
SeqMap(Op(_), s) == IF s = <<>> THEN <<>> ELSE [i \in 1..Len(s) |-> Op(s[i])]

\* Position of key k in an insertion-ordered dict d (0 when absent).
IndexOfChat(d, k) ==
    IF \E i \in 1..Len(d) : d[i].chat_id = k
    THEN CHOOSE i \in 1..Len(d) : d[i].chat_id = k
    ELSE 0

IndexOfChannel(d, k) ==
    IF \E i \in 1..Len(d) : d[i].channel_id = k
    THEN CHOOSE i \in 1..Len(d) : d[i].channel_id = k
    ELSE 0

\* del d[key] for the entry at position i.
RemoveAt(d, i) == SubSeq(d, 1, i - 1) \o SubSeq(d, i + 1, Len(d))

\* bindings.get(chat_id, {})
ChatBindings(bindings, c) ==
    IF IndexOfChat(bindings, c) = 0 THEN <<>>
    ELSE bindings[IndexOfChat(bindings, c)].chans

----------------------------------------------------------------------------
\* Configuration and its file.

ActiveConfiguration == [bindings_paused |-> FALSE, bindings |-> <<>>]

NoFile == [exists |-> FALSE]

\* asdict of an ActiveBindingConfiguration, under its channel id.
SavedBinding(b) ==
    Entry(b.channel_id,
          <<Entry("discord_to_whatsapp", b.discord_to_whatsapp),
            Entry("whatsapp_to_discord", b.whatsapp_to_discord)>>)

SavedChat(e) == Entry(e.chat_id, SeqMap(SavedBinding, e.chans))

\* json.dump(asdict(self._config)): the JSON document written, with every
\* field of the dataclasses, in the order of their declaration.
SavedOf(cfg) ==
    [exists |-> TRUE,
     json |-> <<Entry("bindings_paused", cfg.bindings_paused),
                Entry("bindings", SeqMap(SavedChat, cfg.bindings))>>]

\* ActiveBindingConfiguration(**config) with the flags taken from each
\* other's key.
ActiveBindingSwapped(e) ==
    [channel_id |-> e.key,
     discord_to_whatsapp |-> Get(e.value, "whatsapp_to_discord", FALSE),
     whatsapp_to_discord |-> Get(e.value, "discord_to_whatsapp", FALSE)]

\* Line 102: ActiveBindingConfiguration(**config); a flag that the file
\* leaves out is False.
ActiveBindingOfSaved(e) ==
    [channel_id |-> e.key,
     discord_to_whatsapp |-> Get(e.value, "discord_to_whatsapp", FALSE),
     whatsapp_to_discord |-> Get(e.value, "whatsapp_to_discord", FALSE)]

ActiveChatOfSaved(e) == [chat_id |-> e.key, chans |-> SeqMap(ActiveBindingOfSaved, e.value)]

\* _load_config
LoadConfig(f) ==
    IF ~f.exists THEN ActiveConfiguration
    ELSE [bindings_paused |-> IF Get(f.json, "bindings_paused", FALSE) THEN TRUE ELSE FALSE,
          bindings |-> SeqMap(ActiveChatOfSaved, Get(f.json, "bindings", <<>>))]

\* bot.get_channel(id) returns a TextChannel
IsTextChannel(ch) == ch \in ChannelIds /\ channels[ch] = "text"

----------------------------------------------------------------------------
\* Task records.

IdleFwd == [pc |-> "idle"]
IdleAdm == [pc |-> "idle", op |-> "none"]
IdleWeb == [pc |-> "idle"]

\* _handle_webhook awaits on_message: when the forward ends, the handler
\* returns its response, or the exception of the forward leaves it.
WebAfter(w, f) ==
    IF w.pc = "pipeline" /\ f.pc \in {"returned", "raised"}
    THEN [w EXCEPT !.pc = "done", !.resp = IF f.pc = "returned" THEN "ok" ELSE "error"]
    ELSE w

\* The users of the Discord servers; user 1 owns the application.
Users == {1, 2}

\* The gateway's groups, named by their JID, and the tasks that look groups
\* up at the same time.
Jids == {1, 2}
Lookups == {1, 2}

\* WDMTABot once setup_hook has run: admin_ids (None: every user is an
\* admin), the users who invoke commands and post messages (members), the
\* user of the last command (caller), the last message posted in a channel
\* (post), whether WhatsAppCog was added (cog), the call of close(), the
\* connection to Discord and the Paginator view it last sent (view).
BotOf(admin_ids, members) ==
    [admin_ids |-> admin_ids, members |-> members, caller |-> 0, post |-> None,
     cog |-> TRUE, close |-> [pc |-> "idle", n |-> 0, at |-> 0, calls |-> <<>>],
     conn |-> "open", view |-> None]

\* WhatsAppClient once setup has run: the session to the gateway, the
\* webhook server, _dump_io, and the messages it has sent to WhatsApp.
ClientOf(session, dump_io) ==
    [session |-> session, listener |-> "running", dump_io |-> dump_io, outbox |-> <<>>]

IdleLookup == [pc |-> "idle"]

\* _group_cache (empty at construction), the groups the gateway lists
\* (remote) and the lookup tasks.
DirOf(remote) ==
    [cache |-> <<>>, remote |-> remote, tasks |-> [t \in Lookups |-> IdleLookup]]

\* A new command starts; the model follows one command at a time.
AdmFree ==
    /\ adm.pc \in {"idle", "done", "raised"}
    /\ nops < MaxOps
    /\ nops' = nops + 1

\* The check that opens every admin command, with no check at all.
IsAdminAlways(admin_ids, user) == TRUE

\* WDMTABot.is_admin
IsAdmin(admin_ids, user) ==
    IF admin_ids = None THEN TRUE ELSE user \in admin_ids[1]

\* A command that ends without awaiting anything whose outcome matters.
AdmDone(op, reply, changed) ==
    [pc |-> "done", op |-> op, reply |-> reply,
     delivered |-> TRUE, changed |-> changed]

\* raise commands.NotOwner(): _on_command_error answers the user.
NotOwner(op) == AdmDone(op, "You do not have permission to run this command!", FALSE)

\* A command suspended in the await named by pc.
AdmAt(pc, op, reply, args) ==
    [pc |-> pc, op |-> op, reply |-> reply,
     delivered |-> FALSE, changed |-> TRUE, args |-> args]

\* Effect of another task's change of the chat dict that the in-flight
\* forward iterates: `del d[k]` at position j leaves a hole behind the
\* iterator when j is already consumed; removing the chat key from bindings
\* leaves the forward with the (emptied) old dict object.
FwdActive == fwd.pc \in {"avatar", "fetch", "send"}

FwdOnDelete(f, c, j) ==
    IF f.pc \in {"avatar", "fetch", "send"} /\ f.msg.chat_id = c /\ ~f.detached
    THEN [f EXCEPT !.pos = IF j <= @ THEN @ - 1 ELSE @, !.dirty = TRUE]
    ELSE f

FwdOnPrune(f, c) ==
    IF f.pc \in {"avatar", "fetch", "send"} /\ f.msg.chat_id = c /\ ~f.detached
    THEN [f EXCEPT !.detached = TRUE, !.dirty = TRUE]
    ELSE f

FwdOnInsert(f, c) ==
    IF f.pc \in {"avatar", "fetch", "send"} /\ f.msg.chat_id = c /\ ~f.detached
    THEN [f EXCEPT !.dirty = TRUE]
    ELSE f

----------------------------------------------------------------------------
\* /binding set

Directions == {"Discord to WhatsApp", "WhatsApp to Discord", "Bidirectional"}

\* direction[0]
FirstChar(direction) ==
    CASE direction = "Discord to WhatsApp" -> "D"
      [] direction = "WhatsApp to Discord" -> "W"
      [] direction = "Bidirectional" -> "B"

ActiveBindingConfiguration(key, direction) ==
    [channel_id |-> key,
     discord_to_whatsapp |-> FirstChar(direction) \in {"D", "B"},
     whatsapp_to_discord |-> FirstChar(direction) \in {"W", "B"}]

\* Lines 538-549: the store after `set` for chat jid and channel key.
SetBinding(bindings, jid, key, direction) ==
    LET b1 == IF IndexOfChat(bindings, jid) = 0
              THEN Append(bindings, [chat_id |-> jid, chans |-> <<>>])
              ELSE bindings
        i == IndexOfChat(b1, jid)
    IN  IF IndexOfChannel(b1[i].chans, key) = 0
        THEN [b1 EXCEPT ![i].chans = Append(@, ActiveBindingConfiguration(key, direction))]
        ELSE b1

SetUpdating(bindings, jid, key) ==
    IndexOfChannel(ChatBindings(bindings, jid), key) # 0

\* group: the Group found by get_group_by_name (None when not found);
\* channel: the TextChannel argument (None: create one in guild g).
BindingSet ==
    /\ AdmFree
    /\ \E user \in bot.members, group \in {None} \cup {Some(c) : c \in ChatIds},
          channel \in {None} \cup {Some(ch) : ch \in {x \in ChannelIds : channels[x] = "text"}},
          g \in Guilds, created \in BOOLEAN, direction \in Directions :
        /\ bot' = [bot EXCEPT !.caller = user]
        /\ IF ~IsAdmin(bot.admin_ids, user)
           THEN /\ adm' = NotOwner("set")
                /\ UNCHANGED <<config, channels, fwd>>
           ELSE IF group = None
                THEN /\ adm' = AdmDone("set", "Group not found.", FALSE)
                     /\ UNCHANGED <<config, channels, fwd>>
                ELSE IF channel = None /\ (~created \/ ~\E x \in ChannelIds : channels[x] = "unused" /\ GuildOf(x) = g)
                THEN \* guild.create_text_channel raised
                     /\ adm' = [AdmDone("set", "", FALSE) EXCEPT !.pc = "raised", !.delivered = FALSE]
                     /\ UNCHANGED <<config, channels, fwd>>
                ELSE LET ch == IF channel # None THEN channel[1]
                               ELSE CHOOSE x \in ChannelIds : channels[x] = "unused" /\ GuildOf(x) = g
                         jid == group[1]
                         updating == SetUpdating(config.bindings, jid, StrOf(ch))
                     IN  /\ channels' = [channels EXCEPT ![ch] = "text"]
                         /\ config' = [config EXCEPT !.bindings = SetBinding(@, jid, StrOf(ch), direction)]
                         /\ fwd' = IF updating THEN fwd ELSE FwdOnInsert(fwd, jid)
                         /\ adm' = AdmAt("respond", "set",
                                         IF updating THEN "Existing Binding Updated"
                                         ELSE "New Binding Created.",
                                         [jid |-> jid, channel |-> ch, direction |-> direction,
                                          updating |-> updating])
    /\ UNCHANGED <<file, cache, web, dump, wa, dir>>

----------------------------------------------------------------------------
\* /binding remove

\* The first chat of the store, whatever it holds.
FirstChatOfAll(bindings, key) == IF bindings = <<>> THEN 0 ELSE 1

\* Lines 591-596: position of the first chat holding the channel (0: none).
FirstChatWith(bindings, key) ==
    IF \E i \in 1..Len(bindings) : IndexOfChannel(bindings[i].chans, key) # 0
    THEN CHOOSE i \in 1..Len(bindings) :
            /\ IndexOfChannel(bindings[i].chans, key) # 0
            /\ \A k \in 1..(i - 1) : IndexOfChannel(bindings[k].chans, key) = 0
    ELSE 0

\* Lines 593-595 without the pruning of the emptied chat.
RemoveBindingNoPrune(bindings, key) ==
    LET i == FirstChatWith(bindings, key)
    IN  [bindings EXCEPT ![i].chans = RemoveAt(@, IndexOfChannel(@, key))]

RemoveBinding(bindings, key) ==
    LET i == FirstChatWith(bindings, key)
        rest == RemoveAt(bindings[i].chans, IndexOfChannel(bindings[i].chans, key))
    IN  IF rest = <<>> THEN RemoveAt(bindings, i)
        ELSE [bindings EXCEPT ![i].chans = rest]

\* here: the command was invoked in the channel itself
\* (channel == interaction.channel).
BindingRemove ==
    /\ AdmFree
    /\ \E user \in bot.members, ch \in {x \in ChannelIds : channels[x] = "text"},
          preserve_channel \in BOOLEAN, here \in BOOLEAN :
        /\ bot' = [bot EXCEPT !.caller = user]
        /\ IF ~IsAdmin(bot.admin_ids, user)
           THEN /\ adm' = NotOwner("remove")
                /\ UNCHANGED <<config, fwd>>
           ELSE IF config.bindings = <<>>
                THEN /\ adm' = AdmDone("remove", "No bindings are currently configured.", FALSE)
                     /\ UNCHANGED <<config, fwd>>
                ELSE IF FirstChatWith(config.bindings, StrOf(ch)) = 0
                THEN /\ adm' = AdmDone("remove", "No binding is configured for the given channel.", FALSE)
                     /\ UNCHANGED <<config, fwd>>
                ELSE LET i == FirstChatWith(config.bindings, StrOf(ch))
                         c == config.bindings[i].chat_id
                         j == IndexOfChannel(config.bindings[i].chans, StrOf(ch))
                         f1 == FwdOnDelete(fwd, c, j)
                     IN  /\ config' = [config EXCEPT !.bindings = RemoveBinding(@, StrOf(ch))]
                         /\ fwd' = IF Len(config.bindings[i].chans) = 1 THEN FwdOnPrune(f1, c) ELSE f1
                         /\ adm' = AdmAt(IF preserve_channel THEN "respond" ELSE "delete",
                                         "remove", "Binding successfully deleted.",
                                         [channel |-> ch, preserve_channel |-> preserve_channel,
                                          here |-> here, jid |-> c])
    /\ UNCHANGED <<file, channels, cache, web, dump, wa, dir>>

\* Lines 605-613: await channel.delete(), then the response unless the
\* command's own channel was deleted, then _save_config.
RemoveDelete ==
    /\ adm.pc = "delete"
    /\ adm.op = "remove"
    /\ \E ok \in BOOLEAN :
        IF ~ok
        THEN /\ adm' = [adm EXCEPT !.pc = "raised"]
             /\ UNCHANGED <<channels, file>>
        ELSE /\ channels' = [channels EXCEPT ![adm.args.channel] = "deleted"]
             /\ IF adm.args.here
                THEN /\ file' = SavedOf(config)
                     /\ adm' = [adm EXCEPT !.pc = "done", !.reply = ""]
                ELSE /\ adm' = [adm EXCEPT !.pc = "respond"]
                     /\ UNCHANGED file
    /\ UNCHANGED <<config, cache, fwd, nops, web, dump, bot, wa, dir>>

----------------------------------------------------------------------------
\* /binding clear

DeleteOutcomes == {"ok", "denied", "error"}

\* Lines 648-654: the channel the binding resolves to is a TextChannel,
\* looked up in the whole bot or in the guild of the interaction.
ClearResolves(key, include_global, guild) ==
    /\ IsTextChannel(IntOf(key))
    /\ include_global \/ GuildOf(IntOf(key)) = guild

\* Lines 668-669: del chat_bindings[channel_id] for every id in to_clear.
WithoutKeys(chans, keys) == SelectSeq(chans, LAMBDA e : e.channel_id \notin keys)

\* Lines 671-673: chats left without bindings are dropped.
PruneEmpty(bindings) == SelectSeq(bindings, LAMBDA e : e.chans # <<>>)

FwdOnClear(f, c, chans, keys) ==
    IF f.pc \in {"avatar", "fetch", "send"} /\ f.msg.chat_id = c /\ ~f.detached /\ keys # {}
    THEN [f EXCEPT !.dirty = TRUE,
                   !.pos = @ - Cardinality({j \in 1..Len(chans) :
                                               j <= @ /\ chans[j].channel_id \in keys})]
    ELSE f

RECURSIVE FwdOnPruneAll(_, _)
FwdOnPruneAll(f, bindings) ==
    IF bindings = <<>> THEN f
    ELSE FwdOnPruneAll(IF Head(bindings).chans = <<>>
                       THEN FwdOnPrune(f, Head(bindings).chat_id) ELSE f,
                       Tail(bindings))

\* Lines 644-699, from the head of the inner loop (or of the outer loop when
\* inner is false) to the next await.  T is the command, the bindings and
\* the forwarding task.
RECURSIVE ClearLoop(_)
ClearLoop(T) ==
    LET a == T.a.args
    IN  IF ~a.inner
        THEN IF Len(T.bindings) # a.oused
             THEN [T EXCEPT !.a.pc = "raised"]
             ELSE IF a.opos >= Len(T.bindings)
             THEN [T EXCEPT !.a.pc = "respond",
                            !.bindings = PruneEmpty(@),
                            !.f = FwdOnPruneAll(@, T.bindings)]
             ELSE ClearLoop([T EXCEPT !.a.args.opos = @ + 1,
                                      !.a.args.inner = TRUE,
                                      !.a.args.ipos = 0,
                                      !.a.args.to_clear = {},
                                      !.a.args.iused = Len(T.bindings[a.opos + 1].chans)])
        ELSE LET chat_bindings == T.bindings[a.opos].chans
             IN  IF Len(chat_bindings) # a.iused
                 THEN [T EXCEPT !.a.pc = "raised"]
                 ELSE IF a.ipos >= Len(chat_bindings)
                 THEN ClearLoop([T EXCEPT
                        !.a.args.inner = FALSE,
                        !.a.args.cleared_count = @ + Cardinality(a.to_clear),
                        !.bindings[a.opos].chans = WithoutKeys(@, a.to_clear),
                        !.f = FwdOnClear(@, T.bindings[a.opos].chat_id,
                                         chat_bindings, a.to_clear)])
                 ELSE LET key == chat_bindings[a.ipos + 1].channel_id
                          T1 == [T EXCEPT !.a.args.ipos = @ + 1]
                      IN  IF ClearResolves(key, a.include_global, a.guild)
                          THEN IF a.preserve_channels
                               THEN ClearLoop([T1 EXCEPT !.a.args.to_clear = @ \cup {key}])
                               ELSE [T1 EXCEPT !.a.args.to_clear = @ \cup {key},
                                               !.a.args.channel = IntOf(key),
                                               !.a.pc = "delete"]
                          ELSE IF a.include_global
                          THEN ClearLoop([T1 EXCEPT !.a.args.to_clear = @ \cup {key},
                                                    !.a.args.missing_count = @ + 1])
                          ELSE ClearLoop(T1)

BindingClear ==
    /\ AdmFree
    /\ \E user \in bot.members, preserve_channels \in BOOLEAN, include_global \in BOOLEAN, guild \in Guilds :
        /\ bot' = [bot EXCEPT !.caller = user]
        /\ IF ~IsAdmin(bot.admin_ids, user)
           THEN /\ adm' = NotOwner("clear")
                /\ UNCHANGED <<config, fwd>>
           ELSE IF config.bindings = <<>>
                THEN \* the reply is sent, then response.defer() raises
                     /\ adm' = [AdmDone("clear", "There are no bindings to clear.", FALSE)
                                    EXCEPT !.pc = "raised"]
                     /\ UNCHANGED <<config, fwd>>
                ELSE LET a0 == AdmAt("loop", "clear", "Bindings have been cleared",
                                     [preserve_channels |-> preserve_channels,
                                      include_global |-> include_global, guild |-> guild,
                                      cleared_count |-> 0, failed_count |-> 0,
                                      missing_count |-> 0, inner |-> FALSE, opos |-> 0,
                                      ipos |-> 0, oused |-> Len(config.bindings), iused |-> 0,
                                      to_clear |-> {}, channel |-> 0])
                         T == ClearLoop([a |-> a0, bindings |-> config.bindings, f |-> fwd])
                     IN  /\ adm' = T.a
                         /\ config' = [config EXCEPT !.bindings = T.bindings]
                         /\ fwd' = T.f
    /\ UNCHANGED <<file, channels, cache, web, dump, wa, dir>>

\* Lines 658-661: await channel.delete() returns, raises Forbidden or
\* NotFound (counted), or raises another exception.
ClearDelete ==
    /\ adm.pc = "delete"
    /\ adm.op = "clear"
    /\ \E outcome \in DeleteOutcomes :
        IF outcome = "error"
        THEN /\ adm' = [adm EXCEPT !.pc = "raised"]
             /\ UNCHANGED <<config, channels, fwd>>
        ELSE LET a1 == IF outcome = "ok" THEN adm
                       ELSE [adm EXCEPT !.args.failed_count = @ + 1]
                 T == ClearLoop([a |-> a1, bindings |-> config.bindings, f |-> fwd])
             IN  /\ channels' = IF outcome = "ok"
                                THEN [channels EXCEPT ![adm.args.channel] = "deleted"]
                                ELSE channels
                 /\ adm' = T.a
                 /\ config' = [config EXCEPT !.bindings = T.bindings]
                 /\ fwd' = T.f
    /\ UNCHANGED <<file, cache, nops, web, dump, bot, wa, dir>>

----------------------------------------------------------------------------
\* /binding pause

\* /binding pause without the test of line 706.
BindingPauseAgain ==
    /\ AdmFree
    /\ \E user \in bot.members :
        /\ bot' = [bot EXCEPT !.caller = user]
        /\ IF ~IsAdmin(bot.admin_ids, user)
           THEN /\ adm' = NotOwner("pause")
                /\ UNCHANGED config
           ELSE /\ config' = [config EXCEPT !.bindings_paused = TRUE]
                /\ adm' = AdmAt("respond", "pause", "Bindings Paused", <<>>)
    /\ UNCHANGED <<file, channels, cache, fwd, web, dump, wa, dir>>

BindingPause ==
    /\ AdmFree
    /\ \E user \in bot.members :
        /\ bot' = [bot EXCEPT !.caller = user]
        /\ IF ~IsAdmin(bot.admin_ids, user)
           THEN /\ adm' = NotOwner("pause")
                /\ UNCHANGED config
           ELSE IF config.bindings_paused
                THEN /\ adm' = AdmDone("pause", "Bindings are already paused.", FALSE)
                     /\ UNCHANGED config
                ELSE /\ config' = [config EXCEPT !.bindings_paused = TRUE]
                     /\ adm' = AdmAt("respond", "pause", "Bindings Paused", <<>>)
    /\ UNCHANGED <<file, channels, cache, fwd, web, dump, wa, dir>>

\* /binding resume
BindingResume ==
    /\ AdmFree
    /\ \E user \in bot.members :
        /\ bot' = [bot EXCEPT !.caller = user]
        /\ IF ~IsAdmin(bot.admin_ids, user)
           THEN /\ adm' = NotOwner("resume")
                /\ UNCHANGED config
           ELSE IF ~config.bindings_paused
                THEN /\ adm' = AdmDone("resume", "Bindings have not already been paused.", FALSE)
                     /\ UNCHANGED config
                ELSE /\ config' = [config EXCEPT !.bindings_paused = TRUE]
                     /\ adm' = AdmAt("respond", "resume", "Bindings Resumed", <<>>)
    /\ UNCHANGED <<file, channels, cache, fwd, web, dump, wa, dir>>

----------------------------------------------------------------------------
\* The await of the response (interaction.response.send_message or
\* interaction.followup.send) of a command that changed the store.

SavingOps == {"set", "remove", "clear"}

Respond ==
    /\ adm.pc = "respond"
    /\ \E ok \in BOOLEAN :
        adm' = IF ~ok THEN [adm EXCEPT !.pc = "raised"]
               ELSE [adm EXCEPT !.delivered = TRUE,
                                !.pc = IF adm.op \in SavingOps THEN "save" ELSE "done"]
    /\ UNCHANGED <<config, file, channels, cache, fwd, nops, web, dump, bot, wa, dir>>

\* _save_config, the last statement of set, remove and clear.
SaveConfig ==
    /\ adm.pc = "save"
    /\ file' = SavedOf(config)
    /\ adm' = [adm EXCEPT !.pc = "done"]
    /\ UNCHANGED <<config, channels, cache, fwd, nops, web, dump, bot, wa, dir>>

----------------------------------------------------------------------------
\* Message contents (whatsapp.MessageContent and its subclasses).  Text is
\* a sequence of characters.

MessageCacheSize == 2
MediaMaxSize == 2

TextHi == <<"h", "i">>
TextMd == <<"*", "a">>

UnknownContent == [type |-> "Unknown", quote |-> None]
TextContent(text, quote) == [type |-> "Text", quote |-> quote, text |-> text]
ReactionContent(target_id, text) ==
    [type |-> "Reaction", quote |-> None, target_id |-> target_id, text |-> text]
MediaContent(caption, length) ==
    [type |-> "Media", quote |-> None, caption |-> caption, length |-> length]
PollContent(name, quote) == [type |-> "Poll", quote |-> quote, name |-> name]

\* The contents of the messages the model receives.
Contents ==
    {UnknownContent,
     TextContent(TextHi, None),
     TextContent(TextMd, None),
     TextContent(TextHi, Some(TextContent(TextMd, None))),
     ReactionContent(1, Some(<<"+">>)),
     ReactionContent(1, None),
     MediaContent(None, MediaMaxSize),
     MediaContent(Some(TextHi), MediaMaxSize + 1),
     PollContent(TextHi, Some(PollContent(TextHi, None)))}

\* discord.utils.escape_markdown: a backslash before every markdown
\* character.
MarkdownChars == {"_", "\\", "~", "|", "*", "<backtick>"}

RECURSIVE EscapeMarkdown(_)
EscapeMarkdown(s) ==
    IF s = <<>> THEN <<>>
    ELSE (IF Head(s) \in MarkdownChars THEN <<"\\", Head(s)>> ELSE <<Head(s)>>)
         \o EscapeMarkdown(Tail(s))

Unsupported == <<"<backtick>", "< unsupported message content type >", "<backtick>">>

\* _format_quote
FormatQuote(quote) ==
    LET quote_str == CASE quote.type = "Text" -> quote.text
                       [] quote.type = "Poll" -> quote.name
                       [] OTHER -> Unsupported
    IN  <<"> ">> \o EscapeMarkdown(quote_str)

\* discord.Embed
Embed(title, description, footer, icon) ==
    [title |-> title, description |-> description, footer |-> footer, icon |-> icon]

ErrorEmbed(description) == Embed(Some(<<"Error">>), Some(description), None, None)

NotRetrieved == <<"The referenced message could not be retrieved.">>
DownloadFailed == <<"Failed to download media.">>
SizeExceeded == <<"File exceeded size limit (", StrOf(MediaMaxSize), " bytes).">>

\* Lines 168-188: initial_embeds
InitialEmbeds(msg, avatar_url) ==
    (IF msg.content.quote # None
     THEN <<Embed(None, Some(FormatQuote(msg.content.quote[1])), None, None)>>
     ELSE <<>>)
    \o <<Embed(None, None, Some(<<"forwarded from WhatsApp">>), avatar_url)>>

----------------------------------------------------------------------------
\* Delivery cache: message id -> OrderedDict(channel id -> discord.Message).

EmptyCache == [keys |-> {}, store |-> [m \in MsgIds |-> <<>>]]

IndexOfDest(store, ch) ==
    IF \E i \in 1..Len(store) : store[i].channel = ch
    THEN CHOOSE i \in 1..Len(store) : store[i].channel = ch
    ELSE 0

\* The lookup keyed by the source message only.
CacheGetFirst(c, reference_id, ch) ==
    IF reference_id \in c.keys /\ c.store[reference_id] # <<>>
    THEN Some(c.store[reference_id][1].message)
    ELSE None

\* _whatsapp_to_discord_messages.get(reference_id, {}).get(channel.id)
CacheGet(c, reference_id, ch) ==
    IF reference_id \in c.keys /\ IndexOfDest(c.store[reference_id], ch) # 0
    THEN Some(c.store[reference_id][IndexOfDest(c.store[reference_id], ch)].message)
    ELSE None

\* The assignment followed by move_to_end.
StorePutRefresh(store, ch, message) ==
    SelectSeq(store, LAMBDA e : e.channel # ch) \o <<[channel |-> ch, message |-> message]>>

\* store[channel.id] = message
StorePut(store, ch, message) ==
    IF IndexOfDest(store, ch) = 0
    THEN Append(store, [channel |-> ch, message |-> message])
    ELSE [store EXCEPT ![IndexOfDest(store, ch)].message = message]

\* Lines 158-159 left out.
StoreKeep(store) == store

\* Lines 158-159: if len(store) > message_cache_size: store.popitem(last=False)
StoreTrim(store) ==
    IF Len(store) > MessageCacheSize THEN Tail(store) ELSE store

----------------------------------------------------------------------------
\* _process_whatsapp_message

FwdFree ==
    /\ fwd.pc \in {"idle", "returned", "raised"}
    /\ nops < MaxOps
    /\ nops' = nops + 1

\* The task has ended: only what it did is kept.
Finish(f, pc) ==
    [pc |-> pc, msg |-> f.msg, sends |-> f.sends, dirty |-> f.dirty,
     paused |-> f.paused,
     avatar_calls |-> f.avatar_calls, avatar |-> f.avatar, fetch_calls |-> f.fetch_calls,
     fetched |-> f.fetched]

SetLast(embeds, field, value) ==
    [embeds EXCEPT ![Len(embeds)] = [@ EXCEPT ![field] = value]]

\* Lines 130-156 of _send_forwarded_message_to_channel, up to the await of
\* channel.send.  S is the task, the bindings and the cache.
SendPrepare(S, ch, reference_id, attach) ==
    LET reference == IF reference_id = None THEN None
                     ELSE CacheGet(S.cache, reference_id[1], ch)
        embeds == IF reference_id # None /\ reference = None
                  THEN Append(S.f.embeds, ErrorEmbed(NotRetrieved))
                  ELSE S.f.embeds
    IN  [S EXCEPT !.f = [S.f EXCEPT !.pc = "send", !.cur = ch, !.embeds = embeds,
                                    !.reference = reference, !.attach = attach],
                  !.cache = [S.cache EXCEPT !.keys = @ \cup {S.f.msg.id}]]

\* Line 259: the description of the embed of a text message.
TextBodyRaw(content) == Some(content.text)

TextBody(content) == Some(EscapeMarkdown(content.text))

\* functools.singledispatchmethod without the handler of lines 229-235.
DispatchUnregistered(content) ==
    IF content.type \in {"Reaction", "Text", "Media"} THEN content.type ELSE "MessageContent"

\* functools.singledispatchmethod: the handler registered for the class of
\* the content, the handler of MessageContent when there is none.
Dispatch(content) ==
    IF content.type \in {"Unknown", "Reaction", "Text", "Media"} THEN content.type
    ELSE "MessageContent"

\* The test of line 271 with >= for >.
ExceedsLimitOrEqual(content) == content.length >= MediaMaxSize

\* Line 271: content.length > self.media_maxsize
ExceedsLimit(content) == content.length > MediaMaxSize

\* The title of an added reaction for every reaction.
ReactionTitleAdded(content) == Some(<<"Reaction Added">>)

\* Lines 238-241: the title of the embed of a reaction.
ReactionTitle(content) ==
    IF content.text = None THEN Some(<<"Reaction Removed">>) ELSE Some(<<"Reaction Added">>)

RECURSIVE RunLoop(_)

\* _handle_message_content, dispatched on the type of the content, up to
\* its first await.
HandleMessageContent(S, ch) ==
    LET content == S.f.msg.content
        embeds == S.f.embeds
    IN  CASE Dispatch(content) = "Unknown" -> RunLoop(S)
          [] Dispatch(content) = "Reaction" ->
                SendPrepare(
                    [S EXCEPT !.f.embeds =
                        IF content.text = None
                        THEN SetLast(embeds, "title", ReactionTitle(content))
                        ELSE SetLast(SetLast(embeds, "title", ReactionTitle(content)),
                                     "description", content.text)],
                    ch, Some(content.target_id), FALSE)
          [] Dispatch(content) = "Text" ->
                SendPrepare(
                    [S EXCEPT !.f.embeds = SetLast(embeds, "description", TextBody(content))],
                    ch, None, FALSE)
          [] Dispatch(content) = "Media" ->
                LET S1 == [S EXCEPT !.f.embeds = SetLast(embeds, "description", content.caption)]
                IN  IF ExceedsLimit(content)
                    THEN SendPrepare(
                            [S1 EXCEPT !.f.embeds = Append(@, ErrorEmbed(SizeExceeded))],
                            ch, None, FALSE)
                    ELSE [S1 EXCEPT !.f.pc = "fetch", !.f.cur = ch,
                                    !.f.fetch_calls = @ + 1]
          [] OTHER ->
                SendPrepare(
                    [S EXCEPT !.f.embeds = [embeds EXCEPT ![1].description = Some(Unsupported)]],
                    ch, None, FALSE)

\* Lines 190-219: the loop over chat_bindings.items(), from the head of the
\* loop to the next await or to the end of the task.  The dict iterator
\* raises RuntimeError when the size of the dict is not the one it saw when
\* it was created.
RunLoop(S) ==
    LET f == S.f
        i == IndexOfChat(S.bindings, f.msg.chat_id)
        chat_bindings == IF f.detached \/ i = 0 THEN <<>> ELSE S.bindings[i].chans
    IN  IF Len(chat_bindings) # f.used THEN [S EXCEPT !.f = Finish(f, "raised")]
        ELSE IF f.pos >= Len(chat_bindings) THEN [S EXCEPT !.f = Finish(f, "returned")]
        ELSE LET entry == chat_bindings[f.pos + 1]
                 ch == IntOf(entry.channel_id)
             IN  IF ~entry.whatsapp_to_discord
                 THEN RunLoop([S EXCEPT !.f.pos = @ + 1])
                 ELSE IF ~IsTextChannel(ch)
                 THEN \* del chat_bindings[channel_id]; continue
                      RunLoop([S EXCEPT !.bindings[i].chans = RemoveAt(@, f.pos + 1)])
                 ELSE HandleMessageContent([S EXCEPT !.f.pos = @ + 1], ch)

\* The messages received while the binding commands run.
StoreContents ==
    {TextContent(TextMd, None),
     MediaContent(None, MediaMaxSize)}

Messages == [id : {1}, chat_id : ChatIds, content : StoreContents]

\* Lines 162-166: the message is dropped.
DroppedUnlessBound(cfg, msg) == ChatBindings(cfg.bindings, msg.chat_id) = <<>>

Dropped(cfg, msg) ==
    \/ cfg.bindings_paused
    \/ ChatBindings(cfg.bindings, msg.chat_id) = <<>>

\* Lines 161-176: the task of message msg up to the await of
\* get_user_avatar.
OnMessage(msg) ==
    LET f0 == [pc |-> "avatar", msg |-> msg, sends |-> <<>>, dirty |-> FALSE,
               paused |-> config.bindings_paused,
               avatar_calls |-> 0, avatar |-> "none", fetch_calls |-> 0, fetched |-> <<>>,
               detached |-> FALSE, h |-> nops']
    IN  IF Dropped(config, msg) THEN Finish(f0, "returned")
        ELSE [f0 EXCEPT !.avatar_calls = 1]

ProcessWhatsappMessage ==
    /\ FwdFree
    /\ \E msg \in Messages : fwd' = OnMessage(msg)
    /\ UNCHANGED <<config, file, channels, cache, adm, web, dump, bot, wa, dir>>

\* The outcomes of a request to the gateway: a closed session answers
\* nothing, the request raises.
Answered(outcomes) == IF wa.session = "open" THEN outcomes ELSE {"error"}

AvatarOutcomes == {"ok", "RequestError", "error"}

\* Lines 177-183 without the except clause.
AvatarRaisesUnlessOk(outcome) == outcome # "ok"

\* Lines 177-183: the try around get_user_avatar lets through every
\* exception that is not RequestError.
AvatarRaises(outcome) == outcome = "error"

\* Lines 177-190: the avatar arrives (or not); the loop starts.
AvatarDone ==
    /\ fwd.pc = "avatar"
    /\ \E outcome \in Answered(AvatarOutcomes) :
        IF AvatarRaises(outcome)
        THEN /\ fwd' = Finish([fwd EXCEPT !.avatar = outcome], "raised")
             /\ UNCHANGED <<config, cache>>
        ELSE LET chat_bindings == IF fwd.detached THEN <<>>
                                  ELSE ChatBindings(config.bindings, fwd.msg.chat_id)
                 f1 == [pc |-> "loop", msg |-> fwd.msg, sends |-> fwd.sends,
                        dirty |-> fwd.dirty, paused |-> fwd.paused, avatar_calls |-> fwd.avatar_calls,
                        avatar |-> outcome,
                        fetch_calls |-> fwd.fetch_calls, fetched |-> fwd.fetched,
                        detached |-> fwd.detached,
                        h |-> fwd.h,
                        embeds |-> InitialEmbeds(fwd.msg,
                                     IF outcome = "ok" THEN Some(<<"avatar">>) ELSE None),
                        pos |-> 0, used |-> Len(chat_bindings),
                        cur |-> 0, reference |-> None, attach |-> FALSE]
                 S == RunLoop([f |-> f1, bindings |-> config.bindings, cache |-> cache])
             IN  /\ fwd' = S.f
                 /\ config' = [config EXCEPT !.bindings = S.bindings]
                 /\ cache' = S.cache
    /\ web' = WebAfter(web, fwd')
    /\ UNCHANGED <<file, channels, adm, nops, dump, bot, wa, dir>>

FetchOutcomes == {"ok", "RequestError", "ValueError", "error"}

\* The handler of line 275 taken for RequestError too.
FetchNoticeSizeLimit(outcome) ==
    IF outcome = "ok" THEN <<>> ELSE <<ErrorEmbed(SizeExceeded)>>

\* Lines 275-284: the embed appended by the except clause that handles the
\* outcome of content.fetch.
FetchNotice(outcome) ==
    CASE outcome = "ok" -> <<>>
      [] outcome = "RequestError" -> <<ErrorEmbed(DownloadFailed)>>
      [] outcome = "ValueError" -> <<ErrorEmbed(SizeExceeded)>>

\* Lines 274-294: content.fetch returns the data, raises RequestError
\* (status not OK), raises a ValueError (the body is not JSON, or its data
\* is not base64) or raises something else.
FetchDone ==
    /\ fwd.pc = "fetch"
    /\ \E outcome \in Answered(FetchOutcomes) :
        IF outcome = "error"
        THEN /\ fwd' = Finish([fwd EXCEPT !.fetched = Append(@, outcome)], "raised")
             /\ UNCHANGED <<config, cache>>
        ELSE LET S == SendPrepare([f |-> [fwd EXCEPT !.embeds = @ \o FetchNotice(outcome),
                                                     !.fetched = Append(@, outcome)],
                                   bindings |-> config.bindings, cache |-> cache],
                                  fwd.cur, None, outcome = "ok")
             IN  /\ fwd' = S.f
                 /\ config' = [config EXCEPT !.bindings = S.bindings]
                 /\ cache' = S.cache
    /\ web' = WebAfter(web, fwd')
    /\ UNCHANGED <<file, channels, adm, nops, dump, bot, wa, dir>>

\* Lines 156-159: channel.send returns the new discord.Message, or raises.
SendDone ==
    /\ fwd.pc = "send"
    /\ \E ok \in BOOLEAN :
        /\ ok => (channels[fwd.cur] = "text" /\ bot.conn = "open")
        /\ LET sent == [channel |-> fwd.cur, embeds |-> fwd.embeds,
                        reference |-> fwd.reference, attach |-> fwd.attach, ok |-> ok]
               f1 == [fwd EXCEPT !.sends = Append(@, sent), !.pc = "loop"]
               message == <<fwd.h, fwd.cur>>
               c1 == [cache EXCEPT !.store[fwd.msg.id] = StoreTrim(StorePut(@, fwd.cur, message))]
           IN  IF ~ok
               THEN /\ fwd' = Finish(f1, "raised")
                    /\ UNCHANGED <<config, cache>>
               ELSE LET S == RunLoop([f |-> f1, bindings |-> config.bindings, cache |-> c1])
                    IN  /\ fwd' = S.f
                        /\ config' = [config EXCEPT !.bindings = S.bindings]
                        /\ cache' = S.cache
    /\ web' = WebAfter(web, fwd')
    /\ UNCHANGED <<file, channels, adm, nops, dump, bot, wa, dir>>

----------------------------------------------------------------------------

Binding(ch, d2w, w2d) ==
    [channel_id |-> StrOf(ch), discord_to_whatsapp |-> d2w, whatsapp_to_discord |-> w2d]

\* Configuration files left by earlier runs of the program.
InitialFiles ==
    {NoFile,
     SavedOf([bindings_paused |-> FALSE,
              bindings |-> <<[chat_id |-> 1, chans |-> <<Binding(1, FALSE, TRUE)>>],
                             [chat_id |-> 2, chans |-> <<Binding(2, TRUE, TRUE),
                                                         Binding(1, TRUE, FALSE)>>]>>]),
     SavedOf([bindings_paused |-> TRUE,
              bindings |-> <<[chat_id |-> 1, chans |-> <<Binding(1, TRUE, TRUE),
                                                         Binding(2, FALSE, TRUE)>>]>>])}

Init ==
    /\ file \in InitialFiles
    /\ config = LoadConfig(file)
    /\ channels = [ch \in ChannelIds |-> IF ch \in FirstChannels THEN "text" ELSE "unused"]
    /\ cache = EmptyCache
    /\ nops = 0
    /\ fwd = IdleFwd
    /\ adm = IdleAdm
    /\ web = IdleWeb
    /\ dump = <<>>
    /\ bot = BotOf(None, {1})
    /\ wa = ClientOf("open", "none")
    /\ dir = DirOf(Jids)

\* A channel is deleted on Discord by somebody else.
ChannelDeleted ==
    /\ nops < MaxOps
    /\ nops' = nops + 1
    /\ \E ch \in ChannelIds :
        /\ channels[ch] = "text"
        /\ channels' = [channels EXCEPT ![ch] = "deleted"]
    /\ UNCHANGED <<config, file, cache, fwd, adm, web, dump, bot, wa, dir>>

\* The process is restarted: WhatsAppCog.__init__ loads the file again.
Restart ==
    /\ nops < MaxOps
    /\ nops' = nops + 1
    /\ config' = LoadConfig(file)
    /\ cache' = EmptyCache
    /\ fwd' = IdleFwd
    /\ adm' = IdleAdm
    /\ web' = IdleWeb
    /\ bot' = [bot EXCEPT !.caller = 0, !.post = None]
    /\ UNCHANGED <<file, channels, dump, wa, dir>>

\* No command and no message is being handled.
AdmIdle == adm.pc \in {"idle", "done", "raised"}
FwdIdle == fwd.pc \in {"idle", "returned", "raised"}

\* Events are handled one at a time: a command or a message starts when the
\* task before it has ended.
Next ==
    \/ FwdIdle /\ BindingPause
    \/ FwdIdle /\ BindingResume
    \/ FwdIdle /\ BindingSet
    \/ FwdIdle /\ BindingRemove
    \/ RemoveDelete
    \/ FwdIdle /\ BindingClear
    \/ ClearDelete
    \/ Respond
    \/ SaveConfig
    \/ AdmIdle /\ ProcessWhatsappMessage
    \/ AvatarDone
    \/ FetchDone
    \/ SendDone
    \/ ChannelDeleted
    \/ Restart

Spec == Init /\ [][Next]_vars

\* A message is handled while a command is suspended in an await, and a
\* command while a message is.
NextOverlap ==
    \/ BindingPause
    \/ BindingResume
    \/ BindingSet
    \/ BindingRemove
    \/ RemoveDelete
    \/ BindingClear
    \/ ClearDelete
    \/ Respond
    \/ SaveConfig
    \/ ProcessWhatsappMessage
    \/ AvatarDone
    \/ FetchDone
    \/ SendDone
    \/ ChannelDeleted
    \/ Restart

SpecOverlap == Init /\ [][NextOverlap]_vars

----------------------------------------------------------------------------
\* The forwarding of messages of every content under bindings that stay as
\* they were loaded.

\* The number of messages of a run.
MaxMsgs == 3

AllMessages == [id : MsgIds, chat_id : ChatIds, content : Contents]

ForwardBindings ==
    <<[chat_id |-> 1, chans |-> <<Binding(1, TRUE, TRUE), Binding(2, FALSE, TRUE),
                                  Binding(3, FALSE, TRUE)>>],
      [chat_id |-> 2, chans |-> <<Binding(1, FALSE, TRUE), Binding(2, TRUE, FALSE)>>]>>

InitForward ==
    /\ file = SavedOf([bindings_paused |-> FALSE, bindings |-> ForwardBindings])
    /\ config = LoadConfig(file)
    /\ channels = [ch \in ChannelIds |-> "text"]
    /\ cache = EmptyCache
    /\ nops = 0
    /\ fwd = IdleFwd
    /\ adm = IdleAdm
    /\ web = IdleWeb
    /\ dump = <<>>
    /\ bot = BotOf(None, {1})
    /\ wa = ClientOf("open", "none")
    /\ dir = DirOf(Jids)

\* on_message is called with the next message.
ReceiveMessage ==
    /\ fwd.pc \in {"idle", "returned", "raised"}
    /\ nops < MaxMsgs
    /\ nops' = nops + 1
    /\ \E msg \in AllMessages : fwd' = OnMessage(msg)
    /\ UNCHANGED <<config, file, channels, cache, adm, web, dump, bot, wa, dir>>

NextForward ==
    \/ ReceiveMessage
    \/ AvatarDone
    \/ FetchDone
    \/ SendDone

SpecForward == InitForward /\ [][NextForward]_vars

----------------------------------------------------------------------------
\* MessageContent.from_raw.  A raw payload is a JSON object: the sequence of
\* its entries, in the order of the document.  The value of an entry is a
\* string (shape "str", the string in text) or an object (shape "dict") of
\* which the fields the constructors read are kept: text, key.ID, the media
\* fields (media_ok: all the required ones are there, of the right type),
\* caption, fileLength, name, and contextInfo (absent, null, or an object
\* with quotedMessage in quoted).

Raised == [type |-> "Raised", quote |-> None]

EmptyDict ==
    [shape |-> "dict", text |-> None, key_id |-> None, media_ok |-> FALSE,
     length |-> 0, caption |-> None, name |-> None, context |-> "absent",
     quoted |-> None]

StrValue(t) == [EmptyDict EXCEPT !.shape = "str", !.text = Some(t)]

\* The registry without the tag of stickers.
RegistryWithoutSticker(key) ==
    CASE key = "reactionMessage" -> "Reaction"
      [] key \in {"conversation", "extendedTextMessage"} -> "Text"
      [] key \in {"imageMessage", "videoMessage"} -> "Media"
      [] key = "pollCreationMessage" -> "Poll"
      [] OTHER -> "none"

\* MessageContent._registry, filled by __init_subclass__.
Registry(key) ==
    CASE key = "reactionMessage" -> "Reaction"
      [] key \in {"conversation", "extendedTextMessage"} -> "Text"
      [] key \in {"stickerMessage", "imageMessage", "videoMessage"} -> "Media"
      [] key = "pollCreationMessage" -> "Poll"
      [] OTHER -> "none"

RECURSIVE FromRaw(_)

\* The quote is never looked for.
QuoteOfNothing(data) == None

\* MessageContent.__init__: the quote (None, or the decoded quotedMessage,
\* or Raised when contextInfo is not an object or the quotedMessage does
\* not decode).
QuoteOf(data) ==
    IF data.shape # "dict" THEN None
    ELSE IF data.context = "absent" THEN None
    ELSE IF data.context = "null" THEN Some(Raised)
    ELSE IF data.quoted = None THEN None
    ELSE Some(FromRaw(data.quoted[1]))

\* subclass(data[key], key=key): the constructors of the subclasses.
Construct(cls, data, key) ==
    LET quote == QuoteOf(data)
    IN  IF quote # None /\ quote[1].type = "Raised" THEN Raised
        ELSE CASE cls = "Reaction" ->
                    IF data.shape = "dict" /\ data.key_id # None
                    THEN [ReactionContent(data.key_id[1], data.text) EXCEPT !.quote = quote]
                    ELSE Raised
               [] cls = "Text" ->
                    IF key = "conversation"
                    THEN IF data.shape = "str" THEN TextContent(data.text[1], quote)
                         ELSE Raised
                    ELSE IF data.shape = "dict" /\ data.text # None
                         THEN TextContent(data.text[1], quote)
                         ELSE Raised
               [] cls = "Media" ->
                    IF data.shape = "dict" /\ data.media_ok
                    THEN [MediaContent(data.caption, data.length) EXCEPT !.quote = quote]
                    ELSE Raised
               [] cls = "Poll" ->
                    IF data.shape = "dict" /\ data.name # None
                    THEN PollContent(data.name[1], quote)
                    ELSE Raised

\* for key in data: the first key of the payload that the registry knows.
FromRaw(data) ==
    LET hits == {i \in 1..Len(data) : Registry(data[i].key) # "none"}
    IN  IF hits = {} THEN UnknownContent
        ELSE LET i == CHOOSE i \in hits : \A j \in hits : i <= j
             IN  Construct(Registry(data[i].key), data[i].value, data[i].key)

\* Values of the entries of the payloads received.
TextDict == [EmptyDict EXCEPT !.text = Some(TextHi)]
ReactionDict == [EmptyDict EXCEPT !.key_id = Some(1), !.text = Some(<<"+">>)]
ReactionRemovedDict == [EmptyDict EXCEPT !.key_id = Some(1)]
MediaDict == [EmptyDict EXCEPT !.media_ok = TRUE, !.length = MediaMaxSize]
PollDict == [EmptyDict EXCEPT !.name = Some(TextHi)]
Quoting(value, payload) == [value EXCEPT !.context = "dict", !.quoted = Some(payload)]

\* Payloads of one entry with a registered tag and a value of the shape
\* its constructor reads.
WellFormed ==
    {<<Entry("reactionMessage", ReactionDict)>>,
     <<Entry("reactionMessage", ReactionRemovedDict)>>,
     <<Entry("conversation", StrValue(TextMd))>>,
     <<Entry("extendedTextMessage", TextDict)>>,
     <<Entry("stickerMessage", MediaDict)>>,
     <<Entry("imageMessage", MediaDict)>>,
     <<Entry("videoMessage", MediaDict)>>,
     <<Entry("pollCreationMessage", PollDict)>>}

\* Payloads of one entry with a registered tag whose value lacks what the
\* constructor reads.
Malformed ==
    {<<Entry("reactionMessage", EmptyDict)>>,
     <<Entry("conversation", TextDict)>>,
     <<Entry("extendedTextMessage", StrValue(TextHi))>>,
     <<Entry("imageMessage", EmptyDict)>>,
     <<Entry("pollCreationMessage", EmptyDict)>>,
     <<Entry("extendedTextMessage", [TextDict EXCEPT !.context = "null"])>>}

\* Payloads without a registered tag.
Untagged ==
    {<<>>,
     <<Entry("senderKeyDistributionMessage", EmptyDict)>>,
     <<Entry("messageContextInfo", EmptyDict), Entry("locationMessage", TextDict)>>}

\* Payloads that quote a message.
QuotedPayloads ==
    {<<Entry("conversation", StrValue(TextMd))>>,
     <<Entry("imageMessage", MediaDict)>>,
     <<Entry("pollCreationMessage", PollDict)>>,
     <<Entry("messageContextInfo", EmptyDict)>>,
     <<Entry("reactionMessage", EmptyDict)>>}

QuoteBearing ==
    {<<Entry("extendedTextMessage", Quoting(TextDict, q))>> : q \in QuotedPayloads}
    \cup {<<Entry("imageMessage", Quoting(MediaDict, <<Entry("extendedTextMessage", TextDict)>>))>>,
          <<Entry("extendedTextMessage", [TextDict EXCEPT !.context = "dict"])>>,
          <<Entry("conversation", StrValue(TextHi)),
            Entry("messageContextInfo",
                  Quoting(EmptyDict, <<Entry("conversation", StrValue(TextMd))>>))>>}

\* Payloads with keys next to the registered tag, and with two tags.
Mixed ==
    {<<Entry("messageContextInfo", EmptyDict)>> \o p : p \in WellFormed}
    \cup {p \o <<Entry("messageContextInfo", EmptyDict)>> : p \in WellFormed}
    \cup {<<Entry("conversation", StrValue(TextHi)), Entry("imageMessage", MediaDict)>>,
          <<Entry("imageMessage", MediaDict), Entry("conversation", StrValue(TextHi))>>}

Payloads == WellFormed \cup Malformed \cup Untagged \cup QuoteBearing \cup Mixed

----------------------------------------------------------------------------
\* WhatsAppClient._handle_webhook.  A request body is kept as what the
\* handler reads of it: whether the unquoted text matches the pattern
\* (match), what json.loads makes of the segment (kind: "invalid" raises,
\* "list" is a JSON value that is not an object, "dict" is an object), the
\* type field, whether event is there, whether event.Info has every field
\* in the right form (info_ok), and the id, the chat and the payload of
\* event.Message.

\* The number of webhook requests of a run.
MaxHooks == 1

NoContent == [type |-> "none", quote |-> None]

MessageBody ==
    [match |-> TRUE, kind |-> "dict", type |-> Some("Message"), has_event |-> TRUE,
     info_ok |-> TRUE, id |-> 1, chat_id |-> 1, message |-> <<>>]

Bodies ==
    {[MessageBody EXCEPT !.match = FALSE],
     [MessageBody EXCEPT !.kind = "invalid"],
     [MessageBody EXCEPT !.kind = "list"],
     [MessageBody EXCEPT !.type = None],
     [MessageBody EXCEPT !.type = Some("ReadReceipt")],
     [MessageBody EXCEPT !.has_event = FALSE],
     [MessageBody EXCEPT !.info_ok = FALSE],
     [MessageBody EXCEPT !.chat_id = 2]}
    \cup {[MessageBody EXCEPT !.message = p] : p \in Payloads}

\* Lines 273-311 up to the call of on_message: how far the handler gets
\* (stage), whether it got past the write of the dump (dumped), and the
\* content it decoded.
Ingest(body) ==
    IF ~body.match
    THEN [stage |-> "nomatch", dumped |-> FALSE, content |-> NoContent]
    ELSE IF body.kind = "invalid"
    THEN [stage |-> "raised", dumped |-> FALSE, content |-> NoContent]
    ELSE IF body.kind # "dict" \/ body.type = None
    THEN [stage |-> "raised", dumped |-> TRUE, content |-> NoContent]
    ELSE IF body.type # Some("Message")
    THEN [stage |-> "ignored", dumped |-> TRUE, content |-> NoContent]
    ELSE IF ~body.has_event
    THEN [stage |-> "raised", dumped |-> TRUE, content |-> NoContent]
    ELSE LET content == FromRaw(body.message)
         IN  IF content.type = "Raised" \/ ~body.info_ok
             THEN [stage |-> "raised", dumped |-> TRUE, content |-> content]
             ELSE [stage |-> "message", dumped |-> TRUE, content |-> content]

\* The handler from the arrival of the request to its first await, or to
\* its end.
HandleWebhook ==
    /\ wa.listener = "running"
    /\ web.pc \in {"idle", "done"}
    /\ fwd.pc \in {"idle", "returned", "raised"}
    /\ nops < MaxHooks
    /\ nops' = nops + 1
    /\ \E body \in Bodies :
        LET r == Ingest(body)
            w == [pc |-> "pipeline", body |-> body, content |-> r.content, resp |-> "none"]
        IN  /\ dump' = IF dump # None /\ r.dumped THEN Some(Append(dump[1], body)) ELSE dump
            /\ IF r.stage = "message"
               THEN /\ fwd' = OnMessage([id |-> body.id, chat_id |-> body.chat_id,
                                         content |-> r.content])
                    /\ web' = WebAfter(w, fwd')
               ELSE /\ fwd' = fwd
                    /\ web' = [w EXCEPT !.pc = "done",
                                        !.resp = IF r.stage = "raised" THEN "error" ELSE "ok"]
    /\ UNCHANGED <<config, file, channels, cache, adm, bot, wa, dir>>

WebhookBindings ==
    <<[chat_id |-> 1, chans |-> <<Binding(1, FALSE, TRUE), Binding(2, TRUE, FALSE)>>]>>

\* The client is built with or without a dump file.
InitWebhook ==
    /\ file = SavedOf([bindings_paused |-> FALSE, bindings |-> WebhookBindings])
    /\ config = LoadConfig(file)
    /\ channels = [ch \in ChannelIds |-> "text"]
    /\ cache = EmptyCache
    /\ nops = 0
    /\ fwd = IdleFwd
    /\ adm = IdleAdm
    /\ web = IdleWeb
    /\ dump \in {None, Some(<<>>)}
    /\ bot = BotOf(None, {1})
    /\ wa = ClientOf("open", IF dump = None THEN "none" ELSE "open")
    /\ dir = DirOf(Jids)

NextWebhook ==
    \/ HandleWebhook
    \/ AvatarDone
    \/ FetchDone
    \/ SendDone

SpecWebhook == InitWebhook /\ [][NextWebhook]_vars

----------------------------------------------------------------------------
\* The configuration file on its own: _save_config and _load_config applied
\* to the configurations over two chats and two channels.

\* The number of saves and loads of a run.
MaxSaves == 3

BindingConfigs ==
    [channel_id : {StrOf(1), StrOf(2)},
     discord_to_whatsapp : BOOLEAN, whatsapp_to_discord : BOOLEAN]

\* A dict has each key once.
ChatBindingsDicts ==
    {<<>>} \cup {<<b>> : b \in BindingConfigs}
           \cup {p \in BindingConfigs \X BindingConfigs : p[1].channel_id # p[2].channel_id}

ChatEntries == [chat_id : ChatIds, chans : ChatBindingsDicts]

BindingsDicts ==
    {<<>>} \cup {<<e>> : e \in ChatEntries}
           \cup {p \in ChatEntries \X ChatEntries : p[1].chat_id # p[2].chat_id}

ActiveConfigurations == [bindings_paused : BOOLEAN, bindings : BindingsDicts]

InitStore ==
    /\ config \in ActiveConfigurations
    /\ file = NoFile
    /\ channels = [ch \in ChannelIds |-> "text"]
    /\ cache = EmptyCache
    /\ nops = 0
    /\ fwd = IdleFwd
    /\ adm = IdleAdm
    /\ web = IdleWeb
    /\ dump = <<>>
    /\ bot = BotOf(None, {1})
    /\ wa = ClientOf("open", "none")
    /\ dir = DirOf(Jids)

\* _save_config
SaveConfigFile ==
    /\ nops < MaxSaves
    /\ nops' = nops + 1
    /\ file' = SavedOf(config)
    /\ UNCHANGED <<config, channels, cache, fwd, adm, web, dump, bot, wa, dir>>

\* _load_config
LoadConfigFile ==
    /\ nops < MaxSaves
    /\ nops' = nops + 1
    /\ config' = LoadConfig(file)
    /\ UNCHANGED <<file, channels, cache, fwd, adm, web, dump, bot, wa, dir>>

NextStore ==
    \/ SaveConfigFile
    \/ LoadConfigFile

SpecStore == InitStore /\ [][NextStore]_vars

----------------------------------------------------------------------------
\* /binding list, the messages that users post in channels, and the
\* commands of users who may not be admins.

\* Lines 482-498: a heading for every chat, then a line for every binding
\* of the chat.
RECURSIVE ListResult(_)
ListResult(bindings) ==
    IF bindings = <<>> THEN <<>>
    ELSE <<[kind |-> "heading", chat_id |-> Head(bindings).chat_id]>>
         \o SeqMap(LAMBDA b : [kind |-> "binding", channel_id |-> b.channel_id,
                               discord_to_whatsapp |-> b.discord_to_whatsapp,
                               whatsapp_to_discord |-> b.whatsapp_to_discord],
                   Head(bindings).chans)
         \o ListResult(Tail(bindings))

\* The command is invoked by user in guild; named: the gateway answers the
\* lookups of get_group_name_from_jid.
BindingList ==
    /\ AdmFree
    /\ \E user \in bot.members, include_global \in BOOLEAN, guild \in Guilds,
          named \in BOOLEAN :
        LET args == [include_global |-> include_global, guild |-> guild]
        IN  /\ bot' = [bot EXCEPT !.caller = user]
            /\ adm' =
                IF include_global /\ ~IsAdmin(bot.admin_ids, user)
                THEN [pc |-> "done", op |-> "list", delivered |-> TRUE, changed |-> FALSE,
                      reply |-> "For security, only owners can list bindings globally.",
                      args |-> args, result |-> <<>>]
                ELSE IF config.bindings = <<>>
                THEN [pc |-> "done", op |-> "list", delivered |-> TRUE, changed |-> FALSE,
                      reply |-> "No bindings have been configured.",
                      args |-> args, result |-> <<>>]
                ELSE IF ~named
                THEN [pc |-> "raised", op |-> "list", delivered |-> FALSE, changed |-> FALSE,
                      reply |-> "", args |-> args, result |-> <<>>]
                ELSE [pc |-> "done", op |-> "list", delivered |-> TRUE, changed |-> FALSE,
                      reply |-> "page 1", args |-> args,
                      result |-> ListResult(config.bindings)]
    /\ UNCHANGED <<config, file, channels, cache, fwd, web, dump, wa, dir>>

\* A user posts a message in a text channel.  The bot takes commands from
\* the command tree only (command_prefix = ()), and no cog listens to the
\* messages of a channel: nothing is sent to WhatsApp.
DiscordPost ==
    /\ nops < MaxOps
    /\ nops' = nops + 1
    /\ \E user \in bot.members, ch \in {x \in ChannelIds : channels[x] = "text"} :
        bot' = [bot EXCEPT !.post = Some([channel |-> ch, user |-> user, at |-> nops'])]
    /\ UNCHANGED <<config, file, channels, cache, fwd, adm, web, dump, wa, dir>>

AdminFile ==
    SavedOf([bindings_paused |-> FALSE,
             bindings |-> <<[chat_id |-> 1, chans |-> <<Binding(1, FALSE, TRUE)>>],
                            [chat_id |-> 2, chans |-> <<Binding(2, TRUE, TRUE),
                                                        Binding(1, TRUE, FALSE)>>]>>])

\* The bot runs with --allow-all (admin_ids is None) or with the owner of
\* the application as its only admin.
InitAdmin ==
    /\ file = AdminFile
    /\ config = LoadConfig(file)
    /\ channels = [ch \in ChannelIds |-> IF ch \in FirstChannels THEN "text" ELSE "unused"]
    /\ cache = EmptyCache
    /\ nops = 0
    /\ fwd = IdleFwd
    /\ adm = IdleAdm
    /\ web = IdleWeb
    /\ dump = <<>>
    /\ bot \in {BotOf(None, Users), BotOf(Some({1}), Users)}
    /\ wa = ClientOf("open", "none")
    /\ dir = DirOf(Jids)

\* The commands and the posts of the users, with no message from WhatsApp
\* in between.
NextAdmin ==
    \/ BindingPause
    \/ BindingResume
    \/ BindingSet
    \/ BindingRemove
    \/ RemoveDelete
    \/ BindingClear
    \/ ClearDelete
    \/ BindingList
    \/ Respond
    \/ SaveConfig
    \/ DiscordPost
    \/ Restart

SpecAdmin == InitAdmin /\ [][NextAdmin]_vars

----------------------------------------------------------------------------
\* The group cache of WhatsAppClient and the lookups that read and refresh
\* it. Each lookup is a task of the event loop: it runs until it awaits, and
\* the lookups of two commands may be suspended at the same time.

\* The Groups array of the answer to group/list: the groups of the gateway,
\* by JID.
RECURSIVE GroupList(_)
GroupList(remote) ==
    IF remote = {}
    THEN <<>>
    ELSE LET jid == CHOOSE j \in remote : \A k \in remote : j <= k
         IN  <<jid>> \o GroupList(remote \ {jid})

\* self._group_cache[jid] = Group(...): a key of the dict keeps its place.
CachePut(group_cache, jid) ==
    IF jid \in Range(group_cache) THEN group_cache ELSE Append(group_cache, jid)

\* for group_entry in listing: self._group_cache[group_entry["JID"]] = ...
RECURSIVE CacheFill(_, _)
CacheFill(group_cache, listing) ==
    IF listing = <<>>
    THEN group_cache
    ELSE CacheFill(CachePut(group_cache, Head(listing)), Tail(listing))

\* A lookup that found its answer in the cache, or after its refresh.
LookupDone(op, jid, refreshed, listing, group_cache) ==
    [pc |-> "done", op |-> op, jid |-> jid, refreshed |-> refreshed,
     listing |-> listing,
     result |-> IF op = "groups" THEN group_cache
                ELSE IF jid \in Range(group_cache) THEN <<jid>> ELSE None]

\* A lookup that sent GET group/list and awaits the response.
LookupGet(op, jid) ==
    [pc |-> "get", op |-> op, jid |-> jid, refreshed |-> FALSE,
     listing |-> <<>>, result |-> None]

\* get_groups: refresh only when the cache is empty.
GetGroups(t) ==
    /\ dir.tasks[t].pc = "idle"
    /\ dir' = [dir EXCEPT !.tasks[t] =
                IF dir.cache # <<>>
                THEN LookupDone("groups", 0, FALSE, <<>>, dir.cache)
                ELSE LookupGet("groups", 0)]
    /\ UNCHANGED <<config, file, channels, cache, fwd, adm, nops, web, dump, bot, wa>>

\* get_group_name_from_jid: refresh when the JID is not in the cache.
GetGroupNameFromJid(t) ==
    \E jid \in Jids :
        /\ dir.tasks[t].pc = "idle"
        /\ dir' = [dir EXCEPT !.tasks[t] =
                    IF jid \in Range(dir.cache)
                    THEN LookupDone("name", jid, FALSE, <<>>, dir.cache)
                    ELSE LookupGet("name", jid)]
        /\ UNCHANGED <<config, file, channels, cache, fwd, adm, nops, web, dump, bot, wa>>

\* _refresh_group_cache, from the response to the await of its body: a
\* status that is not OK raises RequestError and leaves the cache as it
\* is; otherwise the cache is cleared and the task awaits response.json().
RefreshResponse(t) ==
    /\ dir.tasks[t].pc = "get"
    /\ \E ok \in BOOLEAN :
        dir' = IF ok
               THEN [dir EXCEPT !.cache = <<>>,
                                !.tasks[t].pc = "json",
                                !.tasks[t].listing = GroupList(dir.remote)]
               ELSE [dir EXCEPT !.tasks[t].pc = "raised"]
    /\ UNCHANGED <<config, file, channels, cache, fwd, adm, nops, web, dump, bot, wa>>

\* _refresh_group_cache, from the body to its return and to the return of
\* the lookup: the groups of the body are put in the cache; a body that
\* cannot be read raises and leaves the cache as the clear left it.
RefreshBody(t) ==
    /\ dir.tasks[t].pc = "json"
    /\ \E ok \in BOOLEAN :
        dir' = IF ok
               THEN LET filled == CacheFill(dir.cache, dir.tasks[t].listing)
                    IN  [dir EXCEPT !.cache = filled,
                                    !.tasks[t] = LookupDone(dir.tasks[t].op, dir.tasks[t].jid,
                                                            TRUE, dir.tasks[t].listing, filled)]
               ELSE [dir EXCEPT !.tasks[t].pc = "raised"]
    /\ UNCHANGED <<config, file, channels, cache, fwd, adm, nops, web, dump, bot, wa>>

\* The caller of the lookup has its answer, or its error; the task ends.
LookupEnds(t) ==
    /\ dir.tasks[t].pc \in {"done", "raised"}
    /\ dir' = [dir EXCEPT !.tasks[t] = IdleLookup]
    /\ UNCHANGED <<config, file, channels, cache, fwd, adm, nops, web, dump, bot, wa>>

\* Groups are created and deleted on WhatsApp.
GroupsChange ==
    /\ \E remote \in SUBSET Jids :
        /\ remote # dir.remote
        /\ dir' = [dir EXCEPT !.remote = remote]
    /\ UNCHANGED <<config, file, channels, cache, fwd, adm, nops, web, dump, bot, wa>>

InitDirectory ==
    /\ file = NoFile
    /\ config = LoadConfig(file)
    /\ channels = [ch \in ChannelIds |-> IF ch \in FirstChannels THEN "text" ELSE "unused"]
    /\ cache = EmptyCache
    /\ nops = 0
    /\ fwd = IdleFwd
    /\ adm = IdleAdm
    /\ web = IdleWeb
    /\ dump = None
    /\ bot = BotOf(None, {1})
    /\ wa = ClientOf("open", "none")
    /\ \E remote \in SUBSET Jids : dir = DirOf(remote)

NextDirectory ==
    \/ \E t \in Lookups : GetGroups(t)
    \/ \E t \in Lookups : GetGroupNameFromJid(t)
    \/ \E t \in Lookups : RefreshResponse(t)
    \/ \E t \in Lookups : RefreshBody(t)
    \/ \E t \in Lookups : LookupEnds(t)
    \/ GroupsChange

SpecDirectory == InitDirectory /\ [][NextDirectory]_vars

----------------------------------------------------------------------------
\* Shutdown: WDMTABot.close, called by /shutdown or by the runner when the
\* bot stops, while webhook requests arrive.

\* The number of calls of close() in a run: /shutdown calls it, and the
\* runner calls it again when the bot has stopped.
MaxCloses == 2

\* close() with the session closed before the cleanup of the client.
CloseOrderSessionFirst == <<"session", "cleanup", "super">>

\* The awaits of close() in their order: cleanup_bot awaits
\* whatsapp_client.cleanup() and then session.close(); close() then awaits
\* super().close().
CloseOrder == <<"cleanup", "session", "super">>

\* The await close() is at.
CloseAt(step) ==
    /\ bot.close.pc = "run"
    /\ CloseOrder[bot.close.at] = step

\* The await returned: close() goes on to the next, or returns.
CloseAfter(step) ==
    [bot.close EXCEPT !.calls = Append(@, step),
                      !.at = @ + 1,
                      !.pc = IF bot.close.at = Len(CloseOrder) THEN "closed" ELSE "run"]

\* close() is called.
Close ==
    /\ bot.close.pc \in {"idle", "closed", "raised"}
    /\ bot.close.n < MaxCloses
    /\ bot' = [bot EXCEPT !.close = [pc |-> "run", n |-> bot.close.n + 1, at |-> 1,
                                     calls |-> <<>>]]
    /\ UNCHANGED <<config, file, channels, cache, fwd, adm, nops, web, dump, wa, dir>>

CleanupOutcomes == {"ok", "server_error", "dump_error"}

\* WhatsAppClient.cleanup: the webhook server stops once the handler of the
\* request in flight has returned, then the dump file is closed. An error
\* of the server, or of the flush of the file, leaves close().
ClientCleanup ==
    /\ CloseAt("cleanup")
    /\ bot.cog
    /\ web.pc # "pipeline"
    /\ \E outcome \in CleanupOutcomes :
        /\ outcome = "dump_error" => wa.dump_io = "open"
        /\ wa' = CASE outcome = "ok" ->
                        [wa EXCEPT !.listener = "stopped",
                                   !.dump_io = IF @ = "none" THEN "none" ELSE "closed"]
                   [] outcome = "server_error" -> wa
                   [] outcome = "dump_error" ->
                        [wa EXCEPT !.listener = "stopped", !.dump_io = "failed"]
        /\ bot' = [bot EXCEPT !.close = IF outcome = "ok" THEN CloseAfter("cleanup")
                                        ELSE [@ EXCEPT !.pc = "raised"]]
    /\ UNCHANGED <<config, file, channels, cache, fwd, adm, nops, web, dump, dir>>

\* cleanup_bot: await cog.whatsapp_client.session.close()
SessionClose ==
    /\ CloseAt("session")
    /\ bot.cog
    /\ wa' = [wa EXCEPT !.session = "closed"]
    /\ bot' = [bot EXCEPT !.close = CloseAfter("session")]
    /\ UNCHANGED <<config, file, channels, cache, fwd, adm, nops, web, dump, dir>>

\* cleanup_bot when get_cog finds no WhatsAppCog: nothing is cleaned up.
CleanupSkipped ==
    /\ CloseAt("cleanup") \/ CloseAt("session")
    /\ ~bot.cog
    /\ bot' = [bot EXCEPT !.close.at = @ + 1]
    /\ UNCHANGED <<config, file, channels, cache, fwd, adm, nops, web, dump, wa, dir>>

\* await super().close(): the connection to Discord is closed.
SuperClose ==
    /\ CloseAt("super")
    /\ bot' = [bot EXCEPT !.close = CloseAfter("super"), !.conn = "closed"]
    /\ UNCHANGED <<config, file, channels, cache, fwd, adm, nops, web, dump, wa, dir>>

\* setup_bot has run: the cog was added and setup() registered the webhook;
\* or setup() raised RequestError after it started the webhook server, and
\* setup_bot closed the session; or WhatsAppCog could not be built (the
\* configuration file cannot be read) and setup() never ran.
InitShutdown ==
    /\ file = SavedOf([bindings_paused |-> FALSE, bindings |-> WebhookBindings])
    /\ config = LoadConfig(file)
    /\ channels = [ch \in ChannelIds |-> "text"]
    /\ cache = EmptyCache
    /\ nops = 0
    /\ fwd = IdleFwd
    /\ adm = IdleAdm
    /\ web = IdleWeb
    /\ dump \in {None, Some(<<>>)}
    /\ \E setup \in {"ok", "RequestError", "no cog"} :
        /\ bot = [BotOf(None, {1}) EXCEPT !.cog = (setup # "no cog")]
        /\ wa = [ClientOf(IF setup = "RequestError" THEN "closed" ELSE "open",
                          IF dump = None THEN "none" ELSE "open")
                    EXCEPT !.listener = IF setup = "no cog" THEN "none" ELSE "running"]
    /\ dir = DirOf(Jids)

NextShutdown ==
    \/ HandleWebhook
    \/ AvatarDone
    \/ FetchDone
    \/ SendDone
    \/ Close
    \/ ClientCleanup
    \/ SessionClose
    \/ CleanupSkipped
    \/ SuperClose

SpecShutdown == InitShutdown /\ [][NextShutdown]_vars

----------------------------------------------------------------------------
\* Paginator: the view with the four buttons under a list of entries.

\* Paginator.PAGE_SIZE
PageSize == 10

\* The longest list of entries shown.
MaxEntries == 31

\* Python's a // b for b > 0 and for b < 0.
FloorDiv(a, b) == IF b > 0 THEN a \div b ELSE (0 - a) \div (0 - b)

Min(a, b) == IF a <= b THEN a ELSE b
Max(a, b) == IF a >= b THEN a ELSE b

\* Python's s[start:stop]: a negative index counts from the end, and an
\* index beyond an end is that end.
Slice(s, start, stop) ==
    LET Clamp(i) == IF i < 0 THEN Max(Len(s) + i, 0) ELSE Min(i, Len(s))
    IN  SubSeq(s, Clamp(start) + 1, Clamp(stop))

\* Paginator.max_page: -(len(self.entries) // -self.PAGE_SIZE) - 1
MaxPage(entries) == 0 - FloorDiv(Len(entries), 0 - PageSize) - 1

\* generate_embed: the entries of the page and the footer "page x/y".
GenerateEmbed(entries, page) ==
    [description |-> Slice(entries, page * PageSize, page * PageSize + PageSize),
     footer |-> <<page + 1, MaxPage(entries) + 1>>]

\* The view of user over entries, at page.
PaginatorOf(user, entries, page) ==
    [user |-> user, entries |-> entries, page |-> page,
     embed |-> GenerateEmbed(entries, page)]

\* Paginator(interaction, entries).start(): the view is sent at page 0.
PaginatorStart ==
    /\ \E user \in bot.members, n \in 0..MaxEntries :
        bot' = [bot EXCEPT !.view = Some(PaginatorOf(user, [i \in 1..n |-> i], 0))]
    /\ UNCHANGED <<config, file, channels, cache, fwd, adm, nops, web, dump, wa, dir>>

\* show_page: self.page = min(max(page, 0), self.max_page), then the
\* message is edited to the embed of the page.
ShowPage(view, page) ==
    PaginatorOf(view.user, view.entries, Min(Max(page, 0), MaxPage(view.entries)))

\* A press of a button by presser: interaction_check lets only the user of
\* the view through.
Press(presser, page) ==
    /\ bot.view # None
    /\ presser \in bot.members
    /\ bot' = IF presser = bot.view[1].user
              THEN [bot EXCEPT !.view = Some(ShowPage(bot.view[1], page))]
              ELSE bot
    /\ UNCHANGED <<config, file, channels, cache, fwd, adm, nops, web, dump, wa, dir>>

FirstPage == \E presser \in Users : Press(presser, 0)

PrevPage == \E presser \in Users : Press(presser, bot.view[1].page - 1)

NextPage == \E presser \in Users : Press(presser, bot.view[1].page + 1)

LastPage == \E presser \in Users : Press(presser, MaxPage(bot.view[1].entries))

InitPaginator ==
    /\ file = NoFile
    /\ config = LoadConfig(file)
    /\ channels = [ch \in ChannelIds |-> IF ch \in FirstChannels THEN "text" ELSE "unused"]
    /\ cache = EmptyCache
    /\ nops = 0
    /\ fwd = IdleFwd
    /\ adm = IdleAdm
    /\ web = IdleWeb
    /\ dump = None
    /\ bot = BotOf(None, Users)
    /\ wa = ClientOf("open", "none")
    /\ dir = DirOf(Jids)

NextPaginator ==
    \/ PaginatorStart
    \/ FirstPage
    \/ PrevPage
    \/ NextPage
    \/ LastPage

SpecPaginator == InitPaginator /\ [][NextPaginator]_vars

----------------------------------------------------------------------------
\* Properties of the forwarding of one message.

\* The step in which the handling of a message ends by returning.
ForwardReturns == fwd.pc # "returned" /\ fwd'.pc = "returned" /\ fwd' # fwd

\* The step in which the handling of a message starts.
ForwardStarts == fwd.pc \in {"idle", "returned", "raised"} /\ fwd' # fwd /\ fwd'.pc # "idle"

\* The sends logged by task f that went to channel ch.
SendsTo(f, ch) == {i \in 1..Len(f.sends) : f.sends[i].channel = ch}

\* Channel ch is bound to chat c with the WhatsApp-to-Discord flag set.
BoundW2D(bindings, c, ch) ==
    \E i \in 1..Len(bindings) :
        /\ bindings[i].chat_id = c
        /\ \E j \in 1..Len(bindings[i].chans) :
            /\ bindings[i].chans[j].channel_id = StrOf(ch)
            /\ bindings[i].chans[j].whatsapp_to_discord

\* Every channel bound to chat c is a text channel.
AllBoundText(bindings, c, chs) ==
    \A i \in 1..Len(bindings) :
        bindings[i].chat_id = c =>
            \A j \in 1..Len(bindings[i].chans) :
                chs[IntOf(bindings[i].chans[j].channel_id)] = "text"

\* The handling of a Text message by task f, with the store unpaused and
\* unchanged by others meanwhile, sent exactly one embed with description
\* body to every channel bound W2D to the chat, and nothing elsewhere.
OneSendEach(f, bindings, body) ==
    \A ch \in ChannelIds :
        IF BoundW2D(bindings, f.msg.chat_id, ch)
        THEN /\ Cardinality(SendsTo(f, ch)) = 1
             /\ \A i \in SendsTo(f, ch) :
                    LET e == f.sends[i].embeds
                    IN  e[Len(e)].description = Some(body)
        ELSE SendsTo(f, ch) = {}

TextForwardCase(f, bindings, chs) ==
    /\ f.msg.content.type = "Text"
    /\ ~f.paused
    /\ ~f.dirty
    /\ AllBoundText(bindings, f.msg.chat_id, chs)

\* C1 as stated: when the bindings are not paused and every bound channel
\* is a text channel, a Text message with text t is sent exactly once, with
\* body t, to every channel bound to its chat with whatsapp_to_discord, and
\* to no other channel.
C1_BodyIsText ==
    [][ForwardReturns /\ TextForwardCase(fwd', config'.bindings, channels')
        => OneSendEach(fwd', config'.bindings, fwd'.msg.content.text)]_vars

\* C1 amended: under the same conditions, when the handling of the message
\* returns, it has sent exactly one message to every channel bound to the
\* chat with whatsapp_to_discord and none to any other channel, and the body
\* is t with every markdown character preceded by a backslash.
C1_BodyIsEscapedText ==
    [][ForwardReturns /\ TextForwardCase(fwd', config'.bindings, channels')
        => OneSendEach(fwd', config'.bindings,
                       EscapeMarkdown(fwd'.msg.content.text))]_vars

\* A Text message with markdown was sent to the one channel bound W2D to
\* its chat, whose other channel is bound Discord-to-WhatsApp only.
C1_Witness ==
    /\ fwd.pc = "returned"
    /\ TextForwardCase(fwd, config.bindings, channels)
    /\ fwd.msg.content.text = TextMd
    /\ Len(fwd.sends) = 1
    /\ Len(ChatBindings(config.bindings, fwd.msg.chat_id)) = 2

\* C2: while the bindings are paused, the handling of a message ends at
\* once without a send and without a call of the gateway (avatar, media
\* download), and leaves the binding store, its file and the delivery cache
\* as they were.
C2_PausedDropsMessage ==
    [][ForwardStarts /\ config.bindings_paused
        => /\ fwd'.pc = "returned"
           /\ fwd'.sends = <<>>
           /\ fwd'.avatar_calls = 0
           /\ fwd'.fetch_calls = 0
           /\ UNCHANGED <<config, file, cache, channels>>]_vars

\* A media message for a chat with a W2D text channel was dropped.
C2_Witness ==
    /\ fwd.pc = "returned"
    /\ fwd.paused
    /\ fwd.msg.content.type = "Media"
    /\ \E ch \in ChannelIds :
        BoundW2D(config.bindings, fwd.msg.chat_id, ch) /\ channels[ch] = "text"
    /\ cache = EmptyCache

----------------------------------------------------------------------------
\* Properties of the commands.

\* The step in which command op starts.
CommandStarts(op) == nops' = nops + 1 /\ adm' # adm /\ adm'.op = op

\* C3: resume on a paused store unpauses it, so that a message handled
\* after a resume that reported "Bindings Resumed" is not dropped as paused.
C3_ResumeUnpauses ==
    [][ForwardStarts /\ adm.op = "resume" /\ adm.pc = "done" /\ adm.changed
        => ~fwd'.paused]_vars

\* C4: pause on an unpaused store pauses it and reports the change; a pause
\* that follows a pause finds the store paused, reports "already paused" and
\* changes nothing.
C4_PauseTwice ==
    [][CommandStarts("pause")
        => /\ config'.bindings_paused
           /\ config'.bindings = config.bindings
           /\ ~config.bindings_paused
                => adm'.changed /\ adm'.reply = "Bindings Paused"
           /\ adm.op = "pause" => config.bindings_paused
           /\ config.bindings_paused
                => /\ ~adm'.changed
                   /\ adm'.reply = "Bindings are already paused."
                   /\ UNCHANGED <<config, file, cache, channels, fwd>>]_vars

\* The second of two pauses has answered; the file was written unpaused.
C4_Witness ==
    /\ adm.op = "pause"
    /\ adm.reply = "Bindings are already paused."
    /\ nops = 2
    /\ config.bindings_paused
    /\ file.exists /\ ~LoadConfig(file).bindings_paused

\* C5: when set, remove, clear, pause or resume has completed with a change
\* of the store, the file holds the store.
C5_FileIsConfig ==
    (adm.pc = "done" /\ adm.changed /\ fwd.pc = "idle") => file = SavedOf(config)

\* C6: set, remove and clear write the file before their response is
\* delivered, and a command that failed leaves no change of the store
\* unwritten.
C6_SavedBeforeResponse ==
    (adm.op \in SavingOps /\ adm.changed /\ fwd.pc = "idle")
        => /\ adm.delivered => file = SavedOf(config)
           /\ adm.pc = "raised" => file = SavedOf(config)

\* C7: after set(chat, channel, direction) the binding of the channel in
\* the chat has the flags of the direction, whether it was created or was
\* there before.
C7_SetIsUpsert ==
    (adm.op = "set" /\ adm.pc = "respond")
        => /\ \E i \in 1..Len(config.bindings) :
                /\ config.bindings[i].chat_id = adm.args.jid
                /\ \E j \in 1..Len(config.bindings[i].chans) :
                    config.bindings[i].chans[j] =
                        [channel_id |-> StrOf(adm.args.channel),
                         discord_to_whatsapp |->
                            adm.args.direction \in {"Discord to WhatsApp", "Bidirectional"},
                         whatsapp_to_discord |->
                            adm.args.direction \in {"WhatsApp to Discord", "Bidirectional"}]
           /\ adm.reply = "Existing Binding Updated" <=> adm.args.updating

\* C8: every chat key of the store has at least one channel binding.
C8_NoEmptyChat ==
    \A i \in 1..Len(config.bindings) : config.bindings[i].chans # <<>>

\* C9: remove(channel) takes the binding of the channel out of the first
\* chat, in the order of the store, that holds one; the other bindings, the
\* other chats and the pause flag stay as they were, and the chat itself
\* goes when the binding was its only one.
C9_RemoveFirstMatch ==
    [][CommandStarts("remove") /\ adm'.changed
        => LET b == config.bindings
               key == StrOf(adm'.args.channel)
               Holds(k) == \E j \in 1..Len(b[k].chans) : b[k].chans[j].channel_id = key
               i == CHOOSE k \in 1..Len(b) : Holds(k) /\ \A m \in 1..(k - 1) : ~Holds(m)
               rest == SelectSeq(b[i].chans, LAMBDA e : e.channel_id # key)
               expected == IF rest = <<>>
                           THEN SubSeq(b, 1, i - 1) \o SubSeq(b, i + 1, Len(b))
                           ELSE [b EXCEPT ![i].chans = rest]
           IN  /\ Len(rest) = Len(b[i].chans) - 1
               /\ config'.bindings = expected
               /\ config'.bindings_paused = config.bindings_paused
               /\ adm'.args.jid = b[i].chat_id]_vars

\* The channel was the only binding of the first chat, which is gone, and
\* is still bound in a later chat.
C9_Witness ==
    /\ adm.op = "remove"
    /\ adm.changed
    /\ adm.pc \in {"respond", "delete"}
    /\ IndexOfChat(config.bindings, adm.args.jid) = 0
    /\ \E i \in 1..Len(config.bindings) :
        \E j \in 1..Len(config.bindings[i].chans) :
            config.bindings[i].chans[j].channel_id = StrOf(adm.args.channel)

\* C10: when clear has ended, also after a failed delete of a channel, the
\* store holds no binding in the scope of the command whose channel is a
\* text channel, and after a clear of global scope no binding at all.
C10_ClearRemovesAll ==
    (adm.op = "clear" /\ adm.changed /\ adm.pc \in {"respond", "save", "done", "raised"})
        => /\ \A i \in 1..Len(config.bindings) :
                \A j \in 1..Len(config.bindings[i].chans) :
                    LET ch == IntOf(config.bindings[i].chans[j].channel_id)
                    IN  ~(/\ channels[ch] = "text"
                          /\ adm.args.include_global \/ GuildOf(ch) = adm.args.guild)
           /\ adm.args.include_global => config.bindings = <<>>

----------------------------------------------------------------------------
\* Properties of the eviction of dead bindings and of the delivery cache.

\* Chat c holds a binding for channel key k in the bindings b.
Bound(b, c, k) ==
    \E i \in 1..Len(b) :
        /\ b[i].chat_id = c
        /\ \E j \in 1..Len(b[i].chans) : b[i].chans[j].channel_id = k

\* The step is one of a running forward and takes bindings out of the store.
ForwardEvicts ==
    /\ fwd.pc \in {"avatar", "fetch", "send"}
    /\ fwd'.pc # "idle"
    /\ config'.bindings # config.bindings

\* C11: a binding that a forward takes out of the store, because its
\* channel does not resolve to a text channel, is from then on absent from
\* the configuration file too.
C11_EvictionIsSaved ==
    [][ForwardEvicts
        => \A c \in ChatIds, ch \in ChannelIds :
            (Bound(config.bindings, c, StrOf(ch)) /\ ~Bound(config'.bindings, c, StrOf(ch)))
                => ~(file'.exists /\ Bound(LoadConfig(file').bindings, c, StrOf(ch)))]_vars

\* The step in which channel.send returns the message sent.
SendReturns ==
    /\ fwd.pc = "send"
    /\ Len(fwd'.sends) = Len(fwd.sends) + 1
    /\ fwd'.sends[Len(fwd'.sends)].ok

\* The destinations of a per-message store, oldest first.
Destinations(store) == [i \in 1..Len(store) |-> store[i].channel]

\* C12: a delivery to a destination that the store of the message does not
\* hold goes to the end of the store, and takes out the oldest destination,
\* and only it, when the store already holds message_cache_size of them; a
\* delivery to a destination already held, and every step that only looks
\* entries up, leaves the order of the destinations as it was.
C12_FifoEviction ==
    [][IF SendReturns
       THEN LET old == Destinations(cache.store[fwd.msg.id])
                new == Destinations(cache'.store[fwd.msg.id])
            IN  /\ \A m \in MsgIds \ {fwd.msg.id} : cache'.store[m] = cache.store[m]
                /\ IF \E i \in 1..Len(old) : old[i] = fwd.cur
                   THEN new = old
                   ELSE IF Len(old) = MessageCacheSize
                   THEN new = Tail(old) \o <<fwd.cur>>
                   ELSE new = old \o <<fwd.cur>>
       ELSE cache'.store = cache.store]_vars

\* A message went to one destination more than the cap: the first one is
\* gone from its store, the others are held in the order of their sends.
C12_Witness ==
    /\ fwd.pc = "returned"
    /\ Len(fwd.sends) = MessageCacheSize + 1
    /\ Destinations(cache.store[fwd.msg.id])
         = [i \in 1..MessageCacheSize |-> fwd.sends[i + 1].channel]
    /\ \A i \in 1..Len(cache.store[fwd.msg.id]) :
         cache.store[fwd.msg.id][i].channel # fwd.sends[1].channel

\* C13: in every state in which another task can run, the store of every
\* source message holds at most message_cache_size destinations.
C13_StoreWithinCap ==
    \A m \in MsgIds : Len(cache.store[m]) <= MessageCacheSize

\* The task awaits one more send while the store of its message is full.
C13_Witness ==
    /\ fwd.pc = "send"
    /\ Len(fwd.sends) = MessageCacheSize
    /\ Len(cache.store[fwd.msg.id]) = MessageCacheSize
    /\ \A i \in 1..Len(cache.store[fwd.msg.id]) :
         cache.store[fwd.msg.id][i].channel # fwd.cur

\* C14: the delivery cache holds stores for at most message_cache_size
\* distinct source messages.
C14_MessagesWithinLimit ==
    Cardinality(cache.keys) <= MessageCacheSize

\* The step in which a task starts to await channel.send for a reaction.
ReplyPrepared ==
    /\ fwd' # fwd
    /\ fwd'.pc = "send"
    /\ fwd'.msg.content.type = "Reaction"

\* The handles the cache holds for source message r and channel ch.
HandlesOf(c, r, ch) ==
    {c.store[r][i].message : i \in {j \in 1..Len(c.store[r]) : c.store[r][j].channel = ch}}

\* C15: a send with reference r to channel ch is a reply to the handle the
\* cache holds under (r, ch); when the cache holds none the send is made
\* all the same, without a reference and with the notice that the
\* referenced message could not be retrieved; when the send returns, its
\* handle is in the cache under (message id, ch).
C15_ReplyResolution ==
    [][/\ ReplyPrepared
          => LET held == HandlesOf(cache', fwd'.msg.content.target_id, fwd'.cur)
             IN  IF held # {}
                 THEN fwd'.reference # None /\ fwd'.reference[1] \in held
                 ELSE /\ fwd'.reference = None
                      /\ fwd'.embeds[Len(fwd'.embeds)] = ErrorEmbed(NotRetrieved)
       /\ SendReturns
          => LET sent == fwd'.sends[Len(fwd'.sends)]
             IN  /\ sent.channel = fwd.cur
                 /\ sent.reference = fwd.reference
                 /\ sent.embeds = fwd.embeds
                 /\ HandlesOf([store |-> cache'.store], fwd.msg.id, fwd.cur)
                        = {<<fwd.h, fwd.cur>>}]_vars

\* A reaction was sent as a reply to one channel and with the notice to
\* another.
C15_Witness ==
    /\ fwd.pc = "returned"
    /\ fwd.msg.content.type = "Reaction"
    /\ \E i, j \in 1..Len(fwd.sends) :
        /\ fwd.sends[i].reference # None
        /\ fwd.sends[j].reference = None
        /\ fwd.sends[j].embeds[Len(fwd.sends[j].embeds)] = ErrorEmbed(NotRetrieved)

\* C20: a message of Unknown content is sent to no channel, awaits no send
\* and no download, and leaves the delivery cache as it was.
C20_UnknownIsDropped ==
    [][(fwd' # fwd /\ fwd'.pc # "idle" /\ fwd'.msg.content.type = "Unknown")
        => /\ fwd'.sends = <<>>
           /\ fwd'.pc \in {"avatar", "returned", "raised"}
           /\ cache' = cache]_vars

\* A message of Unknown content for a chat with three open text channels
\* was handled to its end.
C20_Witness ==
    /\ fwd.pc = "returned"
    /\ fwd.msg.content.type = "Unknown"
    /\ fwd.avatar_calls = 1
    /\ \A ch \in ChannelIds :
        BoundW2D(config.bindings, fwd.msg.chat_id, ch) /\ channels[ch] = "text"

----------------------------------------------------------------------------
\* Properties of the webhook handler and of the decoding of contents.

\* The handler has taken up a request and decode was called on its payload.
DecodeCalled ==
    /\ web.pc # "idle"
    /\ web.body.match
    /\ web.body.kind = "dict"
    /\ web.body.type = Some("Message")
    /\ web.body.has_event

RegisteredTags ==
    {"reactionMessage", "conversation", "extendedTextMessage", "stickerMessage",
     "imageMessage", "videoMessage", "pollCreationMessage"}

\* The places of the registered tags in payload p.
TagsOf(p) == {i \in 1..Len(p) : p[i].key \in RegisteredTags}

\* The first of them.
FirstTag(p) == CHOOSE i \in TagsOf(p) : \A j \in TagsOf(p) : i <= j

VariantOf(key) ==
    CASE key = "reactionMessage" -> "Reaction"
      [] key \in {"conversation", "extendedTextMessage"} -> "Text"
      [] key \in {"stickerMessage", "imageMessage", "videoMessage"} -> "Media"
      [] key = "pollCreationMessage" -> "Poll"

\* The value has the shape and the required fields of the variant of key.
Shaped(key, v) ==
    CASE key = "conversation" -> v.shape = "str"
      [] key = "extendedTextMessage" -> v.shape = "dict" /\ v.text # None
      [] key = "reactionMessage" -> v.shape = "dict" /\ v.key_id # None
      [] key \in {"stickerMessage", "imageMessage", "videoMessage"} ->
            v.shape = "dict" /\ v.media_ok
      [] key = "pollCreationMessage" -> v.shape = "dict" /\ v.name # None

\* The contextInfo of the value, when there is one, is an object whose
\* quotedMessage, when there is one, decodes.
QuoteDecodes(v) ==
    \/ v.shape # "dict"
    \/ v.context = "absent"
    \/ v.context = "dict" /\ (v.quoted = None \/ FromRaw(v.quoted[1]).type # "Raised")

\* C16: every request is answered with the empty success response.
C16_AlwaysEmptySuccess ==
    web.pc = "done" => web.resp = "ok"

\* C17: with a dump file, the handling of a body that matches the pattern
\* appends its segment to the dump, whatever becomes of the decoding.
C17_DumpedBeforeProcessing ==
    [][(nops' = nops + 1 /\ web' # web /\ web'.pc # "idle" /\ dump # None /\ web'.body.match)
        => dump' = Some(Append(dump[1], web'.body))]_vars

C19_QuoteIsDecodedQuote ==
    (DecodeCalled /\ web.content.type # "Raised")
        => LET p == web.body.message
           IN  IF TagsOf(p) = {} THEN web.content.quote = None
               ELSE LET v == p[FirstTag(p)].value
                    IN  IF v.shape = "dict" /\ v.context = "dict" /\ v.quoted # None
                        THEN web.content.quote = Some(FromRaw(v.quoted[1]))
                        ELSE web.content.quote = None

\* A text that quotes an image was decoded.
C19_Witness ==
    /\ DecodeCalled
    /\ web.content.type = "Text"
    /\ web.content.quote # None
    /\ web.content.quote[1].type = "Media"

----------------------------------------------------------------------------
\* Properties of the forwarding of media.

\* The channels that a message of chat c is forwarded to.
Targets(bindings, c) == {ch \in ChannelIds : BoundW2D(bindings, c, ch)}

\* Task f handles a media message.
MediaForward(f) == f.pc # "idle" /\ f.msg.content.type = "Media"

\* Send i of task f carries the error embed with the description given.
Carries(f, i, description) ==
    \E k \in 1..Len(f.sends[i].embeds) : f.sends[i].embeds[k] = ErrorEmbed(description)

\* C21: a media message is downloaded exactly when its declared length is
\* at most media_max_size: a longer one is never downloaded, and is sent
\* once to every target channel with the size-limit embed and no file; one
\* within the limit is downloaded before every send.
C21_DownloadWithinLimit ==
    MediaForward(fwd)
        => IF fwd.msg.content.length > MediaMaxSize
           THEN /\ fwd.fetch_calls = 0
                /\ fwd.pc # "fetch"
                /\ \A i \in 1..Len(fwd.sends) :
                        ~fwd.sends[i].attach /\ Carries(fwd, i, SizeExceeded)
                /\ fwd.pc = "returned"
                     => \A ch \in ChannelIds :
                            Cardinality(SendsTo(fwd, ch)) =
                                IF ch \in Targets(config.bindings, fwd.msg.chat_id)
                                THEN 1 ELSE 0
           ELSE /\ fwd.fetch_calls >= Len(fwd.sends)
                /\ fwd.pc = "send" => fwd.fetch_calls = Len(fwd.sends) + 1
                /\ fwd.pc = "returned"
                     => fwd.fetch_calls =
                            Cardinality(Targets(config.bindings, fwd.msg.chat_id))

\* A media message over the limit was forwarded to the three channels of
\* its chat.
C21_Witness ==
    /\ fwd.pc = "returned"
    /\ fwd.msg.content.type = "Media"
    /\ fwd.msg.content.length > MediaMaxSize
    /\ Len(fwd.sends) = 3
    /\ fwd.fetch_calls = 0

\* C22: when the download of a media message fails with a request error,
\* the message is still sent to the channel, with the download-failed embed
\* and no file, and the forward goes on: when it returns, every target
\* channel has got exactly one send.
C22_DownloadFailureIsSent ==
    (MediaForward(fwd) /\ fwd.msg.content.length <= MediaMaxSize)
        => /\ \A i \in 1..Len(fwd.fetched) :
                fwd.fetched[i] = "RequestError"
                    => IF i <= Len(fwd.sends)
                       THEN /\ ~fwd.sends[i].attach
                            /\ fwd.sends[i].embeds[Len(fwd.sends[i].embeds)]
                                    = ErrorEmbed(DownloadFailed)
                       ELSE /\ fwd.pc = "send"
                            /\ ~fwd.attach
                            /\ fwd.embeds[Len(fwd.embeds)] = ErrorEmbed(DownloadFailed)
           /\ fwd.pc = "returned"
                => \A ch \in ChannelIds :
                        Cardinality(SendsTo(fwd, ch)) =
                            IF ch \in Targets(config.bindings, fwd.msg.chat_id)
                            THEN 1 ELSE 0

\* The first of three downloads failed with a request error and the
\* message went to the three channels of its chat.
C22_Witness ==
    /\ fwd.pc = "returned"
    /\ fwd.msg.content.type = "Media"
    /\ Len(fwd.fetched) = 3
    /\ fwd.fetched[1] = "RequestError"
    /\ fwd.fetched[3] = "ok"
    /\ Len(fwd.sends) = 3
    /\ fwd.sends[3].attach

----------------------------------------------------------------------------
\* Properties of a forward whose bindings change while it runs.

\* C29: a forward that takes the binding of a dead channel out of the store
\* does not end with an error, and when it returns, every other channel of
\* the chat that is bound with whatsapp_to_discord and resolves to a text
\* channel has got the message exactly once.
C29_EvictionKeepsForwarding ==
    [][ForwardEvicts
        => /\ fwd'.pc # "raised"
           /\ fwd'.pc = "returned"
                => \A ch \in ChannelIds :
                    (BoundW2D(config'.bindings, fwd'.msg.chat_id, ch) /\ channels'[ch] = "text")
                        => Cardinality(SendsTo(fwd', ch)) = 1]_vars

\* C30: a forward that was suspended in a send while a command added or
\* removed a binding of its chat does not end with an error when the send
\* returns.
C30_ResumesAfterChange ==
    [][(fwd.pc = "send" /\ fwd.dirty /\ fwd'.pc # "idle" /\ SendReturns)
        => fwd'.pc # "raised"]_vars

----------------------------------------------------------------------------
\* Properties of the configuration file.

\* C24: a save of the configuration that was loaded from a saved file
\* leaves the file as it is, and a load of the file that was saved from the
\* configuration leaves the configuration as it is: the pause flag, the
\* chats, the channels and the two flags of every binding, in their order.
C24_RoundTrip ==
    [][/\ (file.exists /\ config = LoadConfig(file)) => file' = file
       /\ (file.exists /\ file = SavedOf(config)) => config' = config]_vars

\* A paused configuration of two chats, with a binding of one direction
\* only, was saved, loaded and saved again.
C24_Witness ==
    /\ nops = 3
    /\ file.exists
    /\ file = SavedOf(config)
    /\ config.bindings_paused
    /\ Len(config.bindings) = 2
    /\ \E i \in 1..2 : \E j \in 1..Len(config.bindings[i].chans) :
            config.bindings[i].chans[j].discord_to_whatsapp
                # config.bindings[i].chans[j].whatsapp_to_discord

----------------------------------------------------------------------------
\* Properties of the commands of users who are not admins, of /binding
\* list and of the messages posted in bound channels.

StoreCommands == {"set", "remove", "clear", "pause", "resume"}

NoPermission == "You do not have permission to run this command!"

\* C25: with a set of admin ids, a set, remove, clear, pause or resume of a
\* user who is not in the set ends at once with the refusal and leaves the
\* bindings, the pause flag, the file and the channels as they were; a
\* command of a user of the set, and of any user when admin_ids is None, is
\* not refused.
C25_OnlyAdminsChange ==
    [][\A op \in StoreCommands :
        CommandStarts(op)
            => IF bot.admin_ids # None /\ bot'.caller \notin bot.admin_ids[1]
               THEN /\ config' = config
                    /\ file' = file
                    /\ channels' = channels
                    /\ adm'.pc = "done"
                    /\ adm'.reply = NoPermission
               ELSE adm'.reply # NoPermission]_vars

\* User 2, who is not an admin, was refused a clear of a store that holds
\* bindings.
C25_Witness ==
    /\ bot.admin_ids = Some({1})
    /\ bot.caller = 2
    /\ adm.op = "clear"
    /\ adm.reply = NoPermission
    /\ config.bindings # <<>>

\* C26: the list that /binding list answers without include_global holds
\* only bindings whose channel is of the guild of the command.
C26_ListIsLocal ==
    (adm.op = "list" /\ adm.pc = "done" /\ ~adm.args.include_global)
        => \A i \in 1..Len(adm.result) :
                adm.result[i].kind = "binding"
                    => GuildOf(IntOf(adm.result[i].channel_id)) = adm.args.guild

\* C28: a message posted in a channel that is bound to a chat with
\* discord_to_whatsapp, with the bindings not paused, is sent to the chat,
\* and a message posted in a channel bound without the flag is not.
C28_PostIsForwarded ==
    [][(bot'.post # bot.post /\ bot'.post # None /\ ~config.bindings_paused)
        => LET ch == StrOf(bot'.post[1].channel)
               chats == {c \in ChatIds :
                            \E b \in Range(ChatBindings(config.bindings, c)) :
                                b.channel_id = ch /\ b.discord_to_whatsapp}
           IN  {wa'.outbox[i].chat_id : i \in (Len(wa.outbox) + 1)..Len(wa'.outbox)}
                    = chats]_vars

----------------------------------------------------------------------------
\* Properties of the group cache.

\* Lookup t returns from a refresh that succeeded.
RefreshSucceeds(t) ==
    /\ dir.tasks[t].pc = "json"
    /\ dir'.tasks[t].pc = "done"

\* C23: when a refresh succeeds, the cache holds exactly the groups of the
\* listing that refresh received: no group that the listing lacks is left
\* in it.
C23_RefreshReplaces ==
    [][\A t \in Lookups :
        RefreshSucceeds(t)
            => Range(dir'.cache) = Range(dir.tasks[t].listing)]_vars

\* The same when no other lookup is inside its refresh and none has put
\* groups in the cache since the clear of t.
C23_Alone ==
    [][\A t \in Lookups :
        (RefreshSucceeds(t) /\ \A u \in Lookups \ {t} : dir.tasks[u].pc # "json"
                            /\ dir.cache = <<>>)
            => Range(dir'.cache) = Range(dir.tasks[t].listing)]_vars

----------------------------------------------------------------------------
\* Properties of the shutdown.

----------------------------------------------------------------------------
\* Properties of the choice of the variant among several tags.

\* Payloads p and q hold the same entries, in whatever order.
SameEntries(p, q) ==
    /\ Len(p) = Len(q)
    /\ Range(p) = Range(q)

\* C31: the variant decoded from a payload with two or more registered
\* tags is the variant decoded from every payload of the same entries in
\* another order.
C31_KeyOrderIsIrrelevant ==
    (DecodeCalled /\ Cardinality(TagsOf(web.body.message)) >= 2)
        => \A q \in Payloads :
                SameEntries(web.body.message, q)
                    => FromRaw(q).type = web.content.type

----------------------------------------------------------------------------
\* Properties of what is sent to each channel.

\* The body, or the placeholder, that the embed of a message of content
\* carries.
OwnBlock(content) ==
    CASE content.type = "Text" -> Some(EscapeMarkdown(content.text))
      [] content.type = "Reaction" -> content.text
      [] content.type = "Media" -> content.caption
      [] OTHER -> Some(Unsupported)

\* C32: every send of a message whose content has a quote starts with the
\* embed of the quote summary, and the embed after it carries the body of
\* the message, or the placeholder of its content.
C32_QuoteBlockComesFirst ==
    (fwd.pc # "idle" /\ fwd.msg.content.quote # None)
        => \A i \in 1..Len(fwd.sends) :
                LET embeds == fwd.sends[i].embeds
                IN  /\ Len(embeds) >= 2
                    /\ embeds[1].description = Some(FormatQuote(fwd.msg.content.quote[1]))
                    /\ embeds[2].description = OwnBlock(fwd.msg.content)


\* The embeds of send i of task f after the blocks of the message itself
\* (the quote summary, when there is one, and the embed of the message):
\* the notices.
Notices(f, i) ==
    SubSeq(f.sends[i].embeds, Len(InitialEmbeds(f.msg, None)) + 1, Len(f.sends[i].embeds))

\* What happened to send i of task f that calls for a notice.
OwnNotices(f, i) ==
    CASE f.msg.content.type = "Reaction" ->
            IF f.sends[i].reference = None THEN <<ErrorEmbed(NotRetrieved)>> ELSE <<>>
      [] f.msg.content.type = "Media" ->
            IF f.msg.content.length > MediaMaxSize THEN <<ErrorEmbed(SizeExceeded)>>
            ELSE IF f.fetched[i] = "RequestError" THEN <<ErrorEmbed(DownloadFailed)>>
            ELSE IF f.fetched[i] = "ValueError" THEN <<ErrorEmbed(SizeExceeded)>>
            ELSE <<>>
      [] OTHER -> <<>>

\* C33: a send carries the notice of what happened to that send, once,
\* and no notice of what happened to the sends to the channels before it.
C33_NoticesAreOwn ==
    fwd.pc # "idle"
        => \A i \in 1..Len(fwd.sends) : Notices(fwd, i) = OwnNotices(fwd, i)

\* The same of the first send of a forward only.
C33_FirstSendIsOwn ==
    (fwd.pc # "idle" /\ fwd.sends # <<>>)
        => Notices(fwd, 1) = OwnNotices(fwd, 1)


\* C34: a send carries the size-limit embed only when the declared length
\* of the media is above media_max_size: no failure of the download is
\* reported as a size-limit rejection.
C34_SizeLimitOnlyWhenOversize ==
    fwd.pc # "idle"
        => \A i \in 1..Len(fwd.sends) :
                Carries(fwd, i, SizeExceeded)
                    => /\ fwd.msg.content.type = "Media"
                       /\ fwd.msg.content.length > MediaMaxSize


\* The embed of the message itself among the embeds sent: the one after
\* the quote summary, when there is one.
OwnEmbed(msg, embeds) == embeds[Len(InitialEmbeds(msg, None))]

\* C35: the embed of a reaction has the title "Reaction Added" and the text
\* of the reaction as its description when the reaction has a text, and
\* the title "Reaction Removed" and no description when it has none; the
\* send is a reply exactly when the delivery cache holds a message for the
\* target of the reaction and that channel, and what is sent is what was
\* prepared.
C35_ReactionEmbedAndReply ==
    [][/\ ReplyPrepared
          => LET content == fwd'.msg.content
                 own == OwnEmbed(fwd'.msg, fwd'.embeds)
             IN  /\ IF content.text = None
                    THEN own.title = Some(<<"Reaction Removed">>) /\ own.description = None
                    ELSE own.title = Some(<<"Reaction Added">>)
                         /\ own.description = content.text
                 /\ fwd'.reference # None
                        <=> HandlesOf(cache', content.target_id, fwd'.cur) # {}
       /\ (SendReturns /\ fwd.msg.content.type = "Reaction")
          => LET sent == fwd'.sends[Len(fwd'.sends)]
             IN  /\ OwnEmbed(fwd.msg, sent.embeds) = OwnEmbed(fwd.msg, fwd.embeds)
                 /\ (sent.reference # None) = (fwd.reference # None)]_vars

\* A removed reaction was sent to two channels, to the second as a reply
\* to the message it targets, to the first without.
C35_Witness ==
    /\ fwd.pc = "returned"
    /\ fwd.msg.content.type = "Reaction"
    /\ fwd.msg.content.text = None
    /\ Len(fwd.sends) >= 2
    /\ fwd.sends[1].reference = None
    /\ fwd.sends[2].reference # None
    /\ OwnEmbed(fwd.msg, fwd.sends[2].embeds).title = Some(<<"Reaction Removed">>)

----------------------------------------------------------------------------
\* Properties of remove and clear on bindings that are not there, or not
\* in scope.

\* Some chat of the store holds a binding of the channel of that key.
BoundSomewhere(bindings, key) ==
    \E i \in 1..Len(bindings) :
        \E j \in 1..Len(bindings[i].chans) : bindings[i].chans[j].channel_id = key

NotFoundReplies ==
    {"No bindings are currently configured.",
     "No binding is configured for the given channel."}

\* C36: a remove that is not refused goes on to unbind, and to delete the
\* channel, only when some chat holds a binding of the channel; otherwise
\* it ends at once with the answer that there is no binding, and the
\* store, the file and the channels are as they were, whatever
\* preserve_channel is.
C36_RemoveOfUnboundChangesNothing ==
    [][(CommandStarts("remove") /\ adm'.reply # NoPermission)
        => IF adm'.pc = "done"
           THEN /\ adm'.reply \in NotFoundReplies
                /\ ~adm'.changed
                /\ config' = config
                /\ file' = file
                /\ channels' = channels
           ELSE BoundSomewhere(config.bindings, StrOf(adm'.args.channel))]_vars

\* A remove found no binding of its channel in a store that holds bindings
\* of other channels, saved in the file.
C36_Witness ==
    /\ adm.op = "remove"
    /\ adm.pc = "done"
    /\ adm.reply = "No binding is configured for the given channel."
    /\ config.bindings # <<>>
    /\ file = SavedOf(config)
    /\ \E ch \in ChannelIds :
        channels[ch] = "text" /\ ~BoundSomewhere(config.bindings, StrOf(ch))


\* The bindings of a store, as pairs of a chat and a binding.
BindingsOf(bindings) ==
    UNION {{<<bindings[i].chat_id, bindings[i].chans[j]>> : j \in 1..Len(bindings[i].chans)} :
            i \in 1..Len(bindings)}

\* A step of a clear that got past its first checks.
ClearStep == adm' # adm /\ adm'.op = "clear" /\ adm'.changed

ClearEnded(a) == a.pc \in {"respond", "save", "done", "raised"}

\* The part of C37 on the scope of the current server: a step of such a
\* clear removes no binding whose channel is of another server, leaves
\* every channel of another server as it is, counts as cleared exactly the
\* bindings it removes, and counts none as missing.
C37_ServerScopeFrame ==
    [][(ClearStep /\ ~adm'.args.include_global)
        => LET removed == BindingsOf(config.bindings) \ BindingsOf(config'.bindings)
               before == IF CommandStarts("clear") THEN 0 ELSE adm.args.cleared_count
           IN  /\ BindingsOf(config'.bindings) \subseteq BindingsOf(config.bindings)
               /\ \A r \in removed : GuildOf(IntOf(r[2].channel_id)) = adm'.args.guild
               /\ \A ch \in ChannelIds :
                    GuildOf(ch) # adm'.args.guild => channels'[ch] = channels[ch]
               /\ adm'.args.cleared_count = before + Cardinality(removed)
               /\ adm'.args.missing_count = 0]_vars

\* C37: a clear in the scope of the current server removes, deletes and
\* counts only bindings whose channel is a text channel of that server;
\* a clear in global scope, once ended, leaves no binding in the store.
C37_ClearScope ==
    [][ClearStep
        => IF ~adm'.args.include_global
           THEN LET removed == BindingsOf(config.bindings) \ BindingsOf(config'.bindings)
                IN  /\ \A r \in removed : GuildOf(IntOf(r[2].channel_id)) = adm'.args.guild
                    /\ \A ch \in ChannelIds :
                            GuildOf(ch) # adm'.args.guild => channels'[ch] = channels[ch]
                    /\ adm'.args.missing_count = 0
           ELSE ClearEnded(adm') => config'.bindings = <<>>]_vars

----------------------------------------------------------------------------
\* Properties of the lookups of groups.

\* Lookup t starts as a call of op.
LookupStarts(t, op) ==
    /\ dir.tasks[t].pc = "idle"
    /\ dir'.tasks[t].pc # "idle"
    /\ dir'.tasks[t].op = op

\* The answer of a lookup of the name of jid made on the groups given.
NameAmong(jid, groups) == IF jid \in Range(groups) THEN <<jid>> ELSE None

\* The part of C38 on the calls made: a lookup of a name whose JID is in
\* the cache answers from the cache with no listing call, and one whose
\* JID is not there makes one listing call and no second one; a listing of
\* the groups answers from a cache that is not empty and makes one listing
\* call when it is empty.
C38_CallsMade ==
    [][\A t \in Lookups :
        /\ LookupStarts(t, "name")
            => IF dir'.tasks[t].jid \in Range(dir.cache)
               THEN /\ dir'.tasks[t].pc = "done"
                    /\ ~dir'.tasks[t].refreshed
                    /\ dir'.tasks[t].result = <<dir'.tasks[t].jid>>
               ELSE dir'.tasks[t].pc = "get"
        /\ LookupStarts(t, "groups")
            => IF dir.cache # <<>>
               THEN /\ dir'.tasks[t].pc = "done"
                    /\ ~dir'.tasks[t].refreshed
                    /\ dir'.tasks[t].result = dir.cache
               ELSE dir'.tasks[t].pc = "get"
        /\ dir.tasks[t].pc = "get" => dir'.tasks[t].pc \in {"get", "json", "raised"}
        /\ dir.tasks[t].pc = "json" => dir'.tasks[t].pc \in {"json", "done", "raised"}
        /\ dir.tasks[t].pc \in {"done", "raised"} => dir'.tasks[t].pc \in {dir.tasks[t].pc, "idle"}]_vars

\* C38: the same, and a lookup of a name that refreshed answers the name
\* when the listing it received holds the JID, and null when it does not.
C38_LookupRefreshesOnce ==
    [][\A t \in Lookups :
        /\ LookupStarts(t, "name")
            => IF dir'.tasks[t].jid \in Range(dir.cache)
               THEN dir'.tasks[t].pc = "done" /\ ~dir'.tasks[t].refreshed
               ELSE dir'.tasks[t].pc = "get"
        /\ LookupStarts(t, "groups")
            => IF dir.cache # <<>>
               THEN dir'.tasks[t].pc = "done" /\ ~dir'.tasks[t].refreshed
               ELSE dir'.tasks[t].pc = "get"
        /\ (RefreshSucceeds(t) /\ dir.tasks[t].op = "name")
            => dir'.tasks[t].result = NameAmong(dir.tasks[t].jid, dir.tasks[t].listing)]_vars

----------------------------------------------------------------------------
\* Properties of the forward after a failed fetch of the avatar.

\* C39: a forward whose fetch of the avatar raised RequestError goes on:
\* it ends with an error only when a later send or download raised, its
\* sends carry no avatar, and when it returns every target channel has got
\* exactly one send (none for a message of Unknown content) and no other
\* channel has got any.
C39_AvatarFailureIsTolerated ==
    (fwd.pc # "idle" /\ fwd.avatar = "RequestError")
        => /\ fwd.pc = "raised"
                => \/ fwd.sends # <<>> /\ ~fwd.sends[Len(fwd.sends)].ok
                   \/ fwd.fetched # <<>> /\ fwd.fetched[Len(fwd.fetched)] = "error"
           /\ \A i \in 1..Len(fwd.sends) :
                OwnEmbed(fwd.msg, fwd.sends[i].embeds).icon = None
           /\ fwd.pc = "returned"
                => \A ch \in ChannelIds :
                        Cardinality(SendsTo(fwd, ch)) =
                            IF /\ ch \in Targets(config.bindings, fwd.msg.chat_id)
                               /\ fwd.msg.content.type # "Unknown"
                            THEN 1 ELSE 0

\* A text message whose avatar could not be fetched was sent to the three
\* channels of its chat.
C39_Witness ==
    /\ fwd.pc = "returned"
    /\ fwd.avatar = "RequestError"
    /\ fwd.msg.content.type = "Text"
    /\ Len(fwd.sends) = 3
    /\ \A i \in 1..3 : fwd.sends[i].ok

----------------------------------------------------------------------------
\* Properties of the Paginator.

\* The pages of a list of n entries, counted from 0: a list without
\* entries has one page, which is empty.
PagesOf(n) == 0..(IF n = 0 THEN 0 ELSE (n + PageSize - 1) \div PageSize - 1)

\* The entries of page p of a list.
EntriesOfPage(entries, p) ==
    SubSeq(entries, p * PageSize + 1, Min(Len(entries), p * PageSize + PageSize))

\* The part of C40 on the lists with at least one entry.
C40_PageOfNonEmptyList ==
    (bot.view # None /\ bot.view[1].entries # <<>>)
        => /\ bot.view[1].page \in PagesOf(Len(bot.view[1].entries))
           /\ bot.view[1].embed.description
                = EntriesOfPage(bot.view[1].entries, bot.view[1].page)

\* C40: the page of a Paginator is never negative and never beyond the
\* last page of its list, and what it shows are the entries of that page.
C40_PageInRange ==
    bot.view # None
        => /\ bot.view[1].page >= 0
           /\ bot.view[1].page \in PagesOf(Len(bot.view[1].entries))
           /\ bot.view[1].embed.description
                = EntriesOfPage(bot.view[1].entries, bot.view[1].page)

====
